---- MODULE Spec2Model ----
(***************************************************************************)
(* Verification model of the Microsoft Rewards Bot.                        *)
(*                                                                         *)
(* The module holds several specifications over one set of variables:      *)
(*   Spec       the per-account mobile flow (MobileFlow.run)               *)
(*   SpecBan    the ban monitors, handleBanDetection, the suspension check *)
(*              and the account disabler                                   *)
(*   SpecFuse   detectBanFromPage / comprehensiveBanCheck as functions     *)
(*   SpecCtl    the dashboard's BotController (start / stop / run)         *)
(*   SpecRec    the recovery-email check and the orchestrator's standby    *)
(* Each specification moves only its own group of variables.               *)
(***************************************************************************)
EXTENDS Integers, Sequences, FiniteSets, TLC

\* ---------------------------------------------------------------- bounds
MaxRetryAmount == 2
MaxArticles == 2

\* ------------------------------------------------------------- variables
VARIABLES
    \* MobileFlow.run: position, suspended callers, locals of the frame
    pc, frames, browser, keepBrowserOpen, browserClosed, exc, ret, outcome,
    \* browser contexts created so far and the ones still open
    ctxCreated, ctxOpen,
    \* bot.config, MobileRetryTracker.attempts
    cfg, attempts,
    \* dashboard data of the current pass, rewards API state of the day
    hasMobileCounter, checkInDone, readDone, articlesLeft,
    \* observations of the run
    searchPasses, rebuilds, warnLogged, checkInCalls, checkInStatus,
    readCalls, checkInRedone, readRedone, keptOpen, pointsFailed,
    \* the current invocation of run: earnable total of its dashboard fetch,
    \* error of its first login, its login calls and context requests,
    \* failure of its second login attempt
    earnable, loginErr, loginCalls, ctxRequests, secondErr,
    \* the bot: compromised mode, global standby, incidents sent per account
    compromisedModeActive, compromisedReason, globalStandby, incidents,
    \* BanMonitoring: the monitoringState map, the load throttle, the clock
    monitoringState, lastBanCheck, now,
    \* accounts.jsonc and the rewrites of it per account
    accountFile, fileWrites,
    \* observations of the ban monitors
    events, hardBans, warningsSeen, countedSeen, lastVerdict,
    \* input and result of one comprehensive ban check
    fusePage, fuseResult,
    \* BotController fields, dashboardState.running, the pending calls
    botInstance, isStarting, stopRequested, botProcess, dashRunning,
    startPc, stopPc, stopWait,
    \* the bot runs launched by the controller
    runsStarted, runPhase, executing, unitsLeft,
    \* observations of the controller
    stopAccepted, startedAfterStop,
    \* the orchestrator's tasks and the recovery-email checks
    clusters, taskState, passNo, mismatchSeen, startedAfterMismatch,
    \* Activities.run: the activity, its kind, the position in the handler,
    \* the tab, the rounds left, how the handler and the dispatcher ended
    activity, kind, actPc, tabOpen, roundsLeft, handlerExit, raised,
    runOutcome, dispatcherLogged, unitsDone,
    \* accounts.jsonc as text, and the calls of disableBannedAccount on it
    jsoncFile, disableLog,
    \* parseJsonc: the input, the text after each step, the parsed value
    jsoncInput, jsoncPhase, jsoncText, jsoncValue,
    \* the Edge-version cache, the promise in flight, the clock, the fetches
    \* started and the callers of getEdgeVersions
    edgeVersionCache, edgeVersionInFlight, edgeNow, fetches, callers,
    \* AccountHistory: the history file of one account, the write in
    \* progress, the file before it, the clock, the runs recorded
    historyFile, historyPc, historyPending, historyBefore, historyNow,
    historyRuns,
    \* setupTLSProtection: lastRequestTime, the clock, the last request
    \* routed and the requests routed so far
    lastRequestTime, routeNow, routed, routedCount,
    \* LoginStateDetector.detectState: the page and the state detected
    loginPage, loginState,
    \* detectAndHandleRecoveryMismatch: the account, the masked address on
    \* the page, the verdict
    matchAccount, matchMasked, matchResult,
    \* the ban detectors: the signal examined and the verdict returned
    signal, verdict,
    \* PasskeyHandler: the page of the last call, passkeyHandled, the
    \* dismissals logged, the elements clicked in the last call, the calls
    passkeyPage, passkeyHandled, passkeyLog, passkeyClicks, passkeyCalls

locals == <<browser, keepBrowserOpen, browserClosed>>
ctxVars == <<ctxCreated, ctxOpen>>
apiVars == <<checkInDone, readDone, articlesLeft>>
passVars == <<earnable, loginErr, loginCalls, ctxRequests, secondErr>>
flowVars == <<pc, frames, locals, exc, ret, outcome, ctxVars, cfg,
              attempts, hasMobileCounter, apiVars, passVars>>
obsVars == <<searchPasses, rebuilds, warnLogged, checkInCalls, checkInStatus,
             readCalls, checkInRedone, readRedone, keptOpen, pointsFailed>>
botVars == <<compromisedModeActive, compromisedReason, globalStandby,
             incidents>>
fileVars == <<accountFile, fileWrites>>
banVars == <<monitoringState, lastBanCheck, now, events, hardBans,
             warningsSeen, countedSeen, lastVerdict>>
fuseVars == <<fusePage, fuseResult>>

ctlVars == <<botInstance, isStarting, stopRequested, botProcess, dashRunning,
             startPc, stopPc, stopWait, runsStarted, runPhase, executing,
             unitsLeft, stopAccepted, startedAfterStop>>
recVars == <<clusters, taskState, passNo, mismatchSeen, startedAfterMismatch>>

\* the activity dispatcher and the handlers of one tab
actVars == <<activity, kind, actPc, tabOpen, roundsLeft, handlerExit, raised,
             runOutcome, dispatcherLogged, unitsDone>>
\* the utilities modelled on their own
\* accounts.jsonc as written on disk, the disable calls made on it
textVars == <<jsoncFile, disableLog>>
\* one run of parseJsonc
jsoncVars == <<jsoncInput, jsoncPhase, jsoncText, jsoncValue>>
\* getEdgeVersions
edgeVars == <<edgeVersionCache, edgeVersionInFlight, edgeNow, fetches,
              callers>>
\* AccountHistory
histVars == <<historyFile, historyPc, historyPending, historyBefore,
              historyNow, historyRuns>>
routeVars == <<lastRequestTime, routeNow, routed, routedCount>>
loginVars == <<loginPage, loginState>>
matchVars == <<matchAccount, matchMasked, matchResult>>
detectVars == <<signal, verdict>>
passkeyVars == <<passkeyPage, passkeyHandled, passkeyLog, passkeyClicks, passkeyCalls>>
\* the components added after the utilities
utilVars == <<histVars, routeVars, loginVars, matchVars, detectVars, passkeyVars>>
toolVars == <<actVars, textVars, jsoncVars, edgeVars, utilVars>>

\* everything but the utilities
coreVars == <<flowVars, obsVars, botVars, fileVars, banVars, fuseVars,
              ctlVars, recVars>>

vars == <<coreVars, toolVars>>

\* what each added component leaves alone
oldVars == <<coreVars, actVars, textVars, jsoncVars, edgeVars>>
histRest == <<oldVars, routeVars, loginVars, matchVars, detectVars, passkeyVars>>
routeRest == <<oldVars, histVars, loginVars, matchVars, detectVars, passkeyVars>>
loginRest == <<oldVars, histVars, routeVars, matchVars, detectVars, passkeyVars>>
matchRest == <<oldVars, histVars, routeVars, loginVars, detectVars, passkeyVars>>
detectRest == <<oldVars, histVars, routeVars, loginVars, matchVars, passkeyVars>>
passkeyRest == <<oldVars, histVars, routeVars, loginVars, matchVars, detectVars>>

\* variables the mobile flow never touches
notFlow == <<compromisedReason, globalStandby, incidents, fileVars, banVars,
             fuseVars, ctlVars, recVars, toolVars>>

\* the accounts of accounts.jsonc
Accounts == {"a1", "a2"}

\* ------------------------------------------------------------ MobileFlow
Min(a, b) == IF a < b THEN a ELSE b

\* ReadToEarn: at most articleCount claims are made in one session
articleCount == 10

Config ==
    [retryMobileSearchAmount : 0..MaxRetryAmount,
     runOnZeroPoints : BOOLEAN,
     doDailyCheckIn : BOOLEAN,
     doReadToEarn : BOOLEAN,
     doMobileSearch : BOOLEAN]

\* MobileRetryTracker.registerFailure: count the failure, allow a retry
\* while the count stays within the configured amount
registerFailure(n) == n + 1
shouldRetryAfter(n, maxRetries) == n <= maxRetries

\* variant: the recursive call builds a new tracker
trackerForRetryFresh(n) == 0

\* the tracker handed to the recursive call is the caller's tracker
trackerForRetry(n) == n

\* variant: the branches of the retry decision swapped
takesRetryBranchSwapped(shouldRetry) == ~shouldRetry

\* the retry branch is taken when registerFailure allowed a retry
takesRetryBranch(shouldRetry) == shouldRetry

\* closeBrowserSafely: closes the context, never throws
closeBrowserSafely(open, b) == open \ {b}

\* variant: the browserClosed test of the finally block negated
finallyClosesNegated(keep, closed) == ~keep /\ closed

\* the finally block closes the browser unless it is kept or already closed
finallyCloses(keep, closed) == ~keep /\ ~closed

\* line 404: only the known "target closed" message is retried
retriesLoginAlways(msg) == TRUE

retriesLogin(msg) == msg = "targetClosed"

\* line 451: the zero-points return
stopsOnZeroPointsInverted(runOnZeroPoints, pointsCanCollect) ==
    runOnZeroPoints /\ pointsCanCollect = 0

stopsOnZeroPoints(runOnZeroPoints, pointsCanCollect) ==
    ~runOnZeroPoints /\ pointsCanCollect = 0

\* line 506: the context of this pass is closed before run is called again
closedBeforeRetrySkipped(open, b) == open

closedBeforeRetry(open, b) == closeBrowserSafely(open, b)

InitFlow ==
    /\ pc = "start"
    /\ frames = <<>>
    /\ browser = 0
    /\ keepBrowserOpen = FALSE
    /\ browserClosed = FALSE
    /\ exc = FALSE
    /\ ret = "none"
    /\ outcome = "running"
    /\ ctxCreated = 0
    /\ ctxOpen = {}
    /\ cfg \in Config
    /\ compromisedModeActive = FALSE
    /\ attempts = 0
    /\ hasMobileCounter = FALSE
    /\ checkInDone = FALSE
    /\ readDone = FALSE
    /\ articlesLeft \in {0, MaxArticles}
    /\ searchPasses = 0
    /\ rebuilds = 0
    /\ warnLogged = FALSE
    /\ checkInCalls = 0
    /\ checkInStatus = "none"
    /\ readCalls = 0
    /\ checkInRedone = FALSE
    /\ readRedone = FALSE
    /\ keptOpen = {}
    /\ pointsFailed = FALSE
    /\ earnable = -1
    /\ loginErr = "none"
    /\ loginCalls = 0
    /\ ctxRequests = 0
    /\ secondErr = "none"

\* leave the current invocation of run: resume the caller that awaits it
\* (its return await re-raises or returns, then its own finally runs), or
\* settle the promise of the outermost call
ExitFrame(e) ==
    IF frames = <<>>
    THEN /\ pc' = "done"
         /\ outcome' = IF e THEN "thrown" ELSE "returned"
         /\ exc' = e
         /\ UNCHANGED <<frames, locals>>
    ELSE /\ pc' = "finally"
         /\ exc' = e
         /\ browser' = Head(frames).browser
         /\ keepBrowserOpen' = Head(frames).keepBrowserOpen
         /\ browserClosed' = Head(frames).browserClosed
         /\ frames' = Tail(frames)
         /\ UNCHANGED outcome

\* an exception or a return inside the try block: control goes to finally
ToFinally(e) == pc' = "finally" /\ exc' = e

\* line 389: createBrowserInstance, outside the try block
CreateBrowserInstance ==
    /\ pc = "start"
    /\ \E ok \in BOOLEAN :
        IF ok
        THEN /\ ctxCreated' = ctxCreated + 1
             /\ ctxOpen' = ctxOpen \cup {ctxCreated + 1}
             /\ browser' = ctxCreated + 1
             /\ keepBrowserOpen' = FALSE
             /\ browserClosed' = FALSE
             /\ pc' = "login"
             /\ UNCHANGED <<frames, exc, outcome>>
        ELSE /\ ExitFrame(TRUE)
             /\ UNCHANGED ctxVars
    /\ earnable' = -1
    /\ loginErr' = "none"
    /\ loginCalls' = 0
    /\ ctxRequests' = 1
    /\ secondErr' = "none"
    /\ UNCHANGED <<ret, cfg, compromisedModeActive, attempts,
                   hasMobileCounter, apiVars, obsVars, notFlow>>

\* lines 395-416: newPage and the first login attempt
Login ==
    /\ pc = "login"
    /\ \E r \in {"ok", "compromised", "targetClosed", "otherError"} :
        LET failed == r \in {"targetClosed", "otherError"}
        IN /\ pc' = CASE failed /\ retriesLogin(r) -> "loginRetry"
                      [] failed -> "finally"
                      [] OTHER -> "loggedIn"
           /\ exc' = (failed /\ ~retriesLogin(r))
           /\ loginErr' = IF failed THEN r ELSE "none"
           /\ loginCalls' = loginCalls + 1
           /\ compromisedModeActive' =
                  (compromisedModeActive \/ r = "compromised")
    /\ UNCHANGED <<earnable, ctxRequests, secondErr>>
    /\ UNCHANGED <<frames, locals, ret, outcome, ctxVars, cfg, attempts,
                   hasMobileCounter, apiVars, obsVars, notFlow>>

\* lines 405-412: close the old context, create a fresh one, log in once more
LoginRetry ==
    /\ pc = "loginRetry"
    /\ \E r \in {"ok", "compromised", "createFails", "targetClosed",
                  "otherError"} :
        /\ ctxRequests' = ctxRequests + 1
        /\ loginCalls' = IF r = "createFails" THEN loginCalls
                         ELSE loginCalls + 1
        /\ secondErr' = IF r \in {"ok", "compromised"} THEN "none" ELSE r
        /\ IF r = "createFails"
           THEN /\ ctxOpen' = closeBrowserSafely(ctxOpen, browser)
                /\ UNCHANGED <<ctxCreated, browser>>
           ELSE /\ ctxCreated' = ctxCreated + 1
                /\ ctxOpen' = closeBrowserSafely(ctxOpen, browser)
                                 \cup {ctxCreated + 1}
                /\ browser' = ctxCreated + 1
        /\ pc' = IF r \in {"ok", "compromised"} THEN "loggedIn" ELSE "finally"
        /\ exc' = (r \notin {"ok", "compromised"})
        /\ compromisedModeActive' = (compromisedModeActive \/ r = "compromised")
    /\ UNCHANGED <<earnable, loginErr>>
    /\ UNCHANGED <<frames, keepBrowserOpen, browserClosed, ret, outcome, cfg,
                   attempts, hasMobileCounter, apiVars, obsVars, notFlow>>

\* lines 418-426: compromised mode returns early and may keep the browser;
\* otherwise the mobile access token is fetched and the page goes home
AfterLogin ==
    /\ pc = "loggedIn"
    /\ IF compromisedModeActive
       THEN \E keep \in BOOLEAN, ok \in BOOLEAN :
              /\ keepBrowserOpen' = (ok /\ keep)
              /\ keptOpen' = IF ok /\ keep THEN keptOpen \cup {browser}
                             ELSE keptOpen
              /\ ret' = IF ok THEN "compromised" ELSE ret
              /\ ToFinally(~ok)
       ELSE \E ok \in BOOLEAN :
              /\ pc' = IF ok THEN "dashboard" ELSE "finally"
              /\ exc' = ~ok
              /\ UNCHANGED <<keepBrowserOpen, keptOpen, ret>>
    /\ UNCHANGED <<frames, browser, browserClosed, outcome, ctxVars, cfg,
                   compromisedModeActive, attempts, hasMobileCounter, apiVars,
                   searchPasses, rebuilds, warnLogged, checkInCalls,
                   checkInStatus, readCalls, checkInRedone, readRedone,
                   pointsFailed, passVars, notFlow>>

\* lines 428-457: dashboard data, earnable points, the zero-points return
GetDashboardData ==
    /\ pc = "dashboard"
    /\ \E ok \in BOOLEAN, pointsCanCollect \in 0..1, counter \in BOOLEAN :
        IF ~ok
        THEN /\ ToFinally(TRUE)
             /\ UNCHANGED <<hasMobileCounter, ret, earnable>>
        ELSE /\ hasMobileCounter' = counter
             /\ earnable' = pointsCanCollect
             /\ IF stopsOnZeroPoints(cfg.runOnZeroPoints, pointsCanCollect)
                THEN ret' = "zeroPoints" /\ ToFinally(FALSE)
                ELSE ret' = ret /\ pc' = "checkIn" /\ exc' = FALSE
    /\ UNCHANGED <<frames, locals, outcome, ctxVars, cfg,
                   compromisedModeActive, attempts, apiVars, obsVars, notFlow>>
    /\ UNCHANGED <<loginErr, loginCalls, ctxRequests, secondErr>>

\* lines 459-462 and DailyCheckIn.doDailyCheckIn: one POST to the rewards
\* API; every error, an HTTP 403 included, is caught and logged
DoDailyCheckIn ==
    /\ pc = "checkIn"
    /\ pc' = "readToEarn"
    /\ IF cfg.doDailyCheckIn
       THEN \E resp \in {"claimed", "already", "403", "error"} :
              /\ resp = "claimed" => ~checkInDone
              /\ checkInCalls' = checkInCalls + 1
              /\ checkInStatus' = resp
              /\ checkInRedone' = (checkInRedone \/ checkInDone)
              /\ checkInDone' = (checkInDone \/ resp \in {"claimed", "already"})
       ELSE UNCHANGED <<checkInCalls, checkInStatus, checkInRedone,
                        checkInDone>>
    /\ UNCHANGED <<frames, locals, exc, ret, outcome, ctxVars, cfg,
                   compromisedModeActive, attempts, hasMobileCounter,
                   readDone, articlesLeft, searchPasses, rebuilds, warnLogged,
                   readCalls, readRedone, keptOpen, pointsFailed, passVars, notFlow>>

\* lines 464-467 and ReadToEarn.doReadToEarn: claims articles until the
\* balance stops moving or articleCount claims were made; errors are caught
DoReadToEarn ==
    /\ pc = "readToEarn"
    /\ pc' = "search"
    /\ IF cfg.doReadToEarn
       THEN \E ok \in BOOLEAN :
              /\ readCalls' = readCalls + 1
              /\ readRedone' = (readRedone \/ readDone)
              /\ readDone' = (readDone \/ ok)
              /\ articlesLeft' = IF ok
                                 THEN articlesLeft
                                        - Min(articlesLeft, articleCount)
                                 ELSE articlesLeft
       ELSE UNCHANGED <<readCalls, readRedone, readDone, articlesLeft>>
    /\ UNCHANGED <<frames, locals, exc, ret, outcome, ctxVars, cfg,
                   compromisedModeActive, attempts, hasMobileCounter,
                   checkInDone, searchPasses, rebuilds, warnLogged,
                   checkInCalls, checkInStatus, checkInRedone, keptOpen,
                   pointsFailed, passVars, notFlow>>

\* lines 469-494: the search pass on a worker page and the progress fetch;
\* an error of doSearch itself is caught and logged
DoSearch ==
    /\ pc = "search"
    /\ IF cfg.doMobileSearch /\ hasMobileCounter
       THEN \E r \in {"pageFails", "pointsFail", "undefined", "incomplete",
                      "complete"} :
              /\ searchPasses' = IF r = "pageFails" THEN searchPasses
                                 ELSE searchPasses + 1
              /\ pc' = CASE r \in {"pageFails", "pointsFail"} -> "finally"
                         [] r = "incomplete" -> "retry"
                         [] OTHER -> "points"
              /\ exc' = (r \in {"pageFails", "pointsFail"})
       ELSE /\ pc' = "points"
            /\ UNCHANGED <<searchPasses, exc>>
    /\ UNCHANGED <<frames, locals, ret, outcome, ctxVars, cfg,
                   compromisedModeActive, attempts, hasMobileCounter, apiVars,
                   rebuilds, warnLogged, checkInCalls, checkInStatus,
                   readCalls, checkInRedone, readRedone, keptOpen,
                   pointsFailed, passVars, notFlow>>

\* lines 494-511: register the failure; either log that the retries are
\* exhausted, or close the browser and call run again with the same tracker
RetryMobileSearch ==
    /\ pc = "retry"
    /\ LET n == registerFailure(attempts)
           shouldRetry == shouldRetryAfter(n, cfg.retryMobileSearchAmount)
       IN IF takesRetryBranch(shouldRetry)
          THEN /\ ctxOpen' = closedBeforeRetry(ctxOpen, browser)
               /\ frames' = <<[browser |-> browser,
                               keepBrowserOpen |-> keepBrowserOpen,
                               browserClosed |-> TRUE]>> \o frames
               /\ rebuilds' = rebuilds + 1
               /\ attempts' = trackerForRetry(n)
               /\ pc' = "start"
               /\ browser' = 0
               /\ keepBrowserOpen' = FALSE
               /\ browserClosed' = FALSE
               /\ UNCHANGED <<warnLogged, ctxCreated>>
          ELSE /\ warnLogged' = TRUE
               /\ attempts' = n
               /\ pc' = "points"
               /\ UNCHANGED <<frames, locals, rebuilds, ctxVars>>
    /\ UNCHANGED <<exc, ret, outcome, cfg, compromisedModeActive,
                   hasMobileCounter, apiVars, searchPasses, checkInCalls,
                   checkInStatus, readCalls, checkInRedone, readRedone,
                   keptOpen, pointsFailed, passVars, notFlow>>

\* lines 518-525: the final points fetch and the normal return
GetCurrentPoints ==
    /\ pc = "points"
    /\ \E ok \in BOOLEAN :
        /\ ret' = IF ok THEN "collected" ELSE ret
        /\ pointsFailed' = ~ok
        /\ ToFinally(~ok)
    /\ UNCHANGED <<frames, locals, outcome, ctxVars, cfg,
                   compromisedModeActive, attempts, hasMobileCounter, apiVars,
                   searchPasses, rebuilds, warnLogged, checkInCalls,
                   checkInStatus, readCalls, checkInRedone, readRedone,
                   keptOpen, passVars, notFlow>>

\* lines 526-532: the finally block, then the invocation ends
Finally ==
    /\ pc = "finally"
    /\ ctxOpen' = IF finallyCloses(keepBrowserOpen, browserClosed)
                  THEN closeBrowserSafely(ctxOpen, browser)
                  ELSE ctxOpen
    /\ ExitFrame(exc)
    /\ UNCHANGED <<ret, ctxCreated, cfg, compromisedModeActive, attempts,
                   hasMobileCounter, apiVars, obsVars, passVars, notFlow>>

\* ------------------------------------------------- EnhancedBanDetector
\* the labelled text patterns that detectBanFromPage tests, in its order
PageLabels == <<"ORDER_BLOCKED", "ACCOUNT_SUSPENDED", "ACCESS_DENIED",
                "UNUSUAL_ACTIVITY", "VERIFICATION_REQUIRED",
                "SECURITY_CHALLENGE", "RATE_LIMITED", "CAPTCHA_REQUIRED",
                "SESSION_EXPIRED">>

LabelSet == {PageLabels[i] : i \in 1..Len(PageLabels)}

\* the severity detectBanFromPage returns for a matching text pattern
labelSeverity(l) ==
    CASE l \in {"ORDER_BLOCKED", "ACCOUNT_SUSPENDED", "ACCESS_DENIED"}
           -> "hard-ban"
      [] l = "UNUSUAL_ACTIVITY" -> "soft-ban"
      [] OTHER -> "warning"

\* severityOrder of comprehensiveBanCheck
severityOrder(s) ==
    CASE s = "none" -> 0
      [] s = "warning" -> 1
      [] s = "soft-ban" -> 2
      [] s = "hard-ban" -> 3

Result(sev, reason) ==
    [detected |-> sev # "none", severity |-> sev, reason |-> reason,
     recoverable |-> sev # "hard-ban"]

NoBan == Result("none", "")

\* a page as the detector sees it: does the URL match a BAN_URL_PATTERN,
\* which text patterns match the content, does reading the page throw
Pages == [urlBan : BOOLEAN, text : SUBSET LabelSet, fails : BOOLEAN]

\* index of the first text pattern, in the order of the code, that matches
RECURSIVE firstMatch(_, _)
firstMatch(text, i) ==
    IF i > Len(PageLabels) THEN 0
    ELSE IF PageLabels[i] \in text THEN i
    ELSE firstMatch(text, i + 1)

detectBanFromPage(page) ==
    IF page.fails THEN Result("warning", "Page check failed")
    ELSE IF page.urlBan THEN Result("soft-ban", "Ban URL pattern detected")
    ELSE LET i == firstMatch(page.text, 1)
         IN IF i = 0 THEN NoBan
            ELSE Result(labelSeverity(PageLabels[i]), PageLabels[i])

\* results.sort by descending severityOrder, then results[0]
worstOf(results) ==
    IF results = <<>> THEN NoBan
    ELSE LET best == CHOOSE i \in 1..Len(results) :
                       \A j \in 1..Len(results) :
                          \/ severityOrder(results[j].severity)
                               < severityOrder(results[i].severity)
                          \/ /\ severityOrder(results[j].severity)
                                  = severityOrder(results[i].severity)
                             /\ i <= j
         IN results[best]

comprehensiveBanCheck(page) ==
    LET results == <<detectBanFromPage(page)>>
        hard == {i \in 1..Len(results) : results[i].severity = "hard-ban"}
    IN IF hard # {}
       THEN results[CHOOSE i \in hard : \A j \in hard : i <= j]
       ELSE worstOf(results)

BAN_STATUS_CODES == {403, 429, 451}

detectBanFromResponse(status, rateHeader) ==
    IF status \in BAN_STATUS_CODES
    THEN Result(IF status = 403 THEN "hard-ban" ELSE "warning", "HTTP status")
    ELSE IF rateHeader THEN Result("warning", "Rate limit header detected")
    ELSE NoBan

\* Object.entries(BAN_PATTERNS), in the order of the declaration
BanPatternKeys == PageLabels \o <<"RETRY_LATER">>

\* key.includes("ACCOUNT"), key.includes("ACCESS")
includesACCOUNT(key) == key = "ACCOUNT_SUSPENDED"
includesACCESS(key) == key = "ACCESS_DENIED"

\* the first key whose pattern matches the response data, 0 when none does
RECURSIVE firstKey(_, _)
firstKey(data, i) ==
    IF i > Len(BanPatternKeys) THEN 0
    ELSE IF BanPatternKeys[i] \in data THEN i
    ELSE firstKey(data, i + 1)

\* a result with the recoverable flag the code gives it
Verdict(sev, reason, recoverable) ==
    [detected |-> TRUE, severity |-> sev, reason |-> reason,
     recoverable |-> recoverable]

\* detectBanFromError: error.response, its status, the patterns that match
\* its data, and whether error.message matches RATE_LIMITED
detectBanFromError(error) ==
    LET i == firstKey(error.data, 1)
    IN IF error.hasResponse /\ error.status \in BAN_STATUS_CODES
       THEN Verdict(IF error.status = 403 THEN "hard-ban" ELSE "warning",
                    "HTTP error", error.status # 403)
       ELSE IF error.hasResponse /\ i # 0
       THEN Verdict(IF \/ includesACCOUNT(BanPatternKeys[i])
                       \/ includesACCESS(BanPatternKeys[i])
                    THEN "hard-ban" ELSE "warning",
                    BanPatternKeys[i], ~includesACCOUNT(BanPatternKeys[i]))
       ELSE IF error.messageRateLimited
       THEN Verdict("warning", "Rate limit in error message", TRUE)
       ELSE NoBan

InitFuseIdle ==
    /\ fusePage = [urlBan |-> FALSE, text |-> {}, fails |-> FALSE]
    /\ fuseResult = NoBan

InitFuse ==
    /\ fusePage \in Pages
    /\ fuseResult = [detected |-> FALSE, severity |-> "unchecked",
                     reason |-> "", recoverable |-> TRUE]

\* one call of comprehensiveBanCheck on the page
ComprehensiveBanCheck ==
    /\ fuseResult.severity = "unchecked"
    /\ fuseResult' = comprehensiveBanCheck(fusePage)
    /\ UNCHANGED <<fusePage, flowVars, obsVars, botVars, fileVars, banVars,
                   ctlVars, recVars, toolVars>>

\* ------------------------------------------- BanMonitoring, AccountDisabler
MaxEvents == 3
MaxClock == 2

\* pages the monitors are fed with: a clean page, one page per signal
\* class, a page that cannot be read, and a ban URL showing a suspension text
Page(u, t, f) == [urlBan |-> u, text |-> t, fails |-> f]

SamplePages ==
    {Page(FALSE, {}, FALSE),
     Page(TRUE, {}, FALSE),
     Page(FALSE, {"ACCOUNT_SUSPENDED"}, FALSE),
     Page(FALSE, {"UNUSUAL_ACTIVITY"}, FALSE),
     Page(FALSE, {"RATE_LIMITED"}, FALSE),
     Page(FALSE, {}, TRUE),
     Page(TRUE, {"ACCOUNT_SUSPENDED"}, FALSE)}

FreshState == [present |-> TRUE, warningCount |-> 0, banDetected |-> FALSE]
NoState == [present |-> FALSE, warningCount |-> 0, banDetected |-> FALSE]

\* getMonitoringState: the entry of the map, created on first use
getMonitoringState(map, email) ==
    IF map[email].present THEN map[email] ELSE FreshState

\* handleBanDetection counts warning and soft-ban verdicts alike
countsAsWarning(sev) == sev \in {"warning", "soft-ban"}

\* variant: escalation one warning early
escalationReachedEarly(count) == count >= 2

\* "if too many warnings, treat as soft ban"
escalationReached(count) == count >= 3

\* state of the account after handleBanDetection
handledState(st, sev) ==
    IF sev = "hard-ban" THEN [st EXCEPT !.banDetected = TRUE]
    ELSE IF countsAsWarning(sev)
    THEN [st EXCEPT !.warningCount = st.warningCount + 1]
    ELSE st

\* severity of the result after handleBanDetection, as the callback gets it
handledSeverity(st, sev) ==
    IF sev # "hard-ban" /\ countsAsWarning(sev)
          /\ escalationReached(st.warningCount + 1)
    THEN "soft-ban"
    ELSE sev

\* disableBannedAccount on the parsed account list: an account that is
\* already disabled is left alone, otherwise it is disabled, a BANNED
\* comment is added and the file is written
disableBannedAccount(file, email) ==
    IF file[email].enabled = FALSE THEN file
    ELSE [file EXCEPT ![email] = [enabled |-> FALSE,
                                  banComments |-> @.banComments + 1]]

InitBotIdle ==
    /\ compromisedModeActive = FALSE
    /\ compromisedReason = "none"
    /\ globalStandby = FALSE
    /\ incidents = [a \in Accounts |-> 0]

InitFile ==
    /\ accountFile = [a \in Accounts |-> [enabled |-> TRUE, banComments |-> 0]]
    /\ fileWrites = [a \in Accounts |-> 0]

InitBan ==
    /\ monitoringState = [a \in Accounts |-> NoState]
    /\ lastBanCheck = [a \in Accounts |-> 0]
    /\ now = 1
    /\ events = 0
    /\ hardBans = [a \in Accounts |-> 0]
    /\ warningsSeen = [a \in Accounts |-> 0]
    /\ countedSeen = [a \in Accounts |-> 0]
    /\ lastVerdict = [email |-> "none", input |-> "none", reported |-> "none",
                      warnings |-> 0, counted |-> 0]

\* handleBanDetection(email, result, onBanDetected): the state update, the
\* escalation, and the result handed to the callback
handleBanDetection(email, result) ==
    LET st == getMonitoringState(monitoringState, email)
    IN /\ monitoringState' =
            [monitoringState EXCEPT ![email] = handledState(st, result.severity)]
       /\ lastVerdict' =
            [email |-> email, input |-> result.severity,
             reported |-> handledSeverity(st, result.severity),
             warnings |-> warningsSeen[email]
                            + (IF result.severity = "warning" THEN 1 ELSE 0),
             counted |-> countedSeen[email]
                            + (IF result.severity \in {"warning", "soft-ban"}
                               THEN 1 ELSE 0)]
       /\ hardBans' = IF result.severity = "hard-ban"
                      THEN [hardBans EXCEPT ![email] = @ + 1] ELSE hardBans
       /\ warningsSeen' = IF result.severity = "warning"
                          THEN [warningsSeen EXCEPT ![email] = @ + 1]
                          ELSE warningsSeen
       /\ countedSeen' = IF result.severity \in {"warning", "soft-ban"}
                         THEN [countedSeen EXCEPT ![email] = @ + 1]
                         ELSE countedSeen

NotHandled == UNCHANGED <<monitoringState, lastVerdict, hardBans,
                          warningsSeen, countedSeen>>

banFrame == UNCHANGED <<flowVars, obsVars, botVars, fileVars, fuseVars,
                        ctlVars, recVars, toolVars>>

\* page.on("response"): HTML responses only
OnResponse(email) ==
    /\ events < MaxEvents
    /\ events' = events + 1
    /\ \E status \in {200, 403, 429, 451}, rateHeader \in BOOLEAN,
          html \in BOOLEAN :
         LET result == detectBanFromResponse(status, rateHeader)
         IN IF html /\ result.detected
            THEN handleBanDetection(email, result)
            ELSE NotHandled
    /\ UNCHANGED <<lastBanCheck, now>>
    /\ banFrame

\* page.on("load"): at most one comprehensive check per 5 seconds (one tick)
OnLoad(email) ==
    /\ events < MaxEvents
    /\ events' = events + 1
    /\ IF now - lastBanCheck[email] < 1
       THEN NotHandled /\ UNCHANGED lastBanCheck
       ELSE /\ lastBanCheck' = [lastBanCheck EXCEPT ![email] = now]
            /\ \E page \in SamplePages :
                 LET result == comprehensiveBanCheck(page)
                 IN IF result.detected
                    THEN handleBanDetection(email, result)
                    ELSE NotHandled
    /\ UNCHANGED now
    /\ banFrame

\* page.on("console"): a suspicious message triggers a comprehensive check
OnConsole(email) ==
    /\ events < MaxEvents
    /\ events' = events + 1
    /\ \E suspicious \in BOOLEAN, page \in SamplePages :
         LET result == comprehensiveBanCheck(page)
         IN IF suspicious /\ result.detected
            THEN handleBanDetection(email, result)
            ELSE NotHandled
    /\ UNCHANGED <<lastBanCheck, now>>
    /\ banFrame

\* resetMonitoringState: the entry is deleted from the map; the page
\* listeners keep the state object they captured, with its lastBanCheck
ResetMonitoringState(email) ==
    /\ monitoringState[email].present
    /\ monitoringState' = [monitoringState EXCEPT ![email] = NoState]
    /\ warningsSeen' = [warningsSeen EXCEPT ![email] = 0]
    /\ countedSeen' = [countedSeen EXCEPT ![email] = 0]
    /\ UNCHANGED <<lastBanCheck, now, events, hardBans, lastVerdict>>
    /\ banFrame

\* five seconds pass
Tick ==
    /\ now < MaxClock
    /\ now' = now + 1
    /\ UNCHANGED <<monitoringState, lastBanCheck, events, hardBans,
                   warningsSeen, countedSeen, lastVerdict>>
    /\ banFrame

\* SecurityDetector.checkAccountSuspended with a suspension element on the
\* page: disable the account (a failure is logged), send the incident,
\* enter compromised mode, engage global standby
CheckAccountSuspended(email) ==
    /\ events < MaxEvents
    /\ events' = events + 1
    /\ \E suspended \in BOOLEAN, fileFound \in BOOLEAN :
         IF suspended
         THEN /\ accountFile' = IF fileFound
                                THEN disableBannedAccount(accountFile, email)
                                ELSE accountFile
              /\ fileWrites' =
                   IF fileFound /\ accountFile[email].enabled # FALSE
                   THEN [fileWrites EXCEPT ![email] = @ + 1] ELSE fileWrites
              /\ incidents' = [incidents EXCEPT ![email] = @ + 1]
              /\ compromisedModeActive' = TRUE
              /\ compromisedReason' = "account-suspended"
              /\ globalStandby' = TRUE
              /\ hardBans' = [hardBans EXCEPT ![email] = @ + 1]
         ELSE UNCHANGED <<accountFile, fileWrites, botVars, hardBans>>
    /\ UNCHANGED <<monitoringState, lastBanCheck, now, warningsSeen,
                   countedSeen, lastVerdict>>
    /\ UNCHANGED <<flowVars, obsVars, fuseVars, ctlVars, recVars, toolVars>>

NextBan ==
    \/ \E email \in Accounts : OnResponse(email)
    \/ \E email \in Accounts : OnLoad(email)
    \/ \E email \in Accounts : OnConsole(email)
    \/ \E email \in Accounts : ResetMonitoringState(email)
    \/ \E email \in Accounts : CheckAccountSuspended(email)
    \/ Tick

\* ---------------------------------------------------------- BotController
MaxRuns == 2
MaxUnits == 2

RunIds == 1..MaxRuns

InitCtl ==
    /\ botInstance = 0
    /\ isStarting = FALSE
    /\ stopRequested = FALSE
    /\ botProcess = 0
    /\ dashRunning = FALSE
    /\ startPc = "idle"
    /\ stopPc = "idle"
    /\ stopWait = 0
    /\ runsStarted = 0
    /\ runPhase = [r \in RunIds |-> "unborn"]
    /\ executing = [r \in RunIds |-> 0]
    /\ unitsLeft = [r \in RunIds |-> 0]
    /\ stopAccepted = [r \in RunIds |-> FALSE]
    /\ startedAfterStop = FALSE

\* the runs whose async body has not ended yet
LiveRuns == {r \in RunIds : runPhase[r] \in {"init", "run"}}

\* BotController.cleanup
cleanup ==
    /\ botInstance' = 0
    /\ stopRequested' = FALSE
    /\ botProcess' = 0
    /\ dashRunning' = FALSE

\* what stop() does with its flag after the race of botProcess and the
\* 10 s timer: cleanup resets it
stopFlagAfterWait(flag) == FALSE

ctlFrame == UNCHANGED <<flowVars, obsVars, botVars, fileVars, banVars,
                        fuseVars, recVars, toolVars>>

\* start(): the guards, isStarting, then the dynamic import is awaited
StartBegin ==
    /\ startPc = "idle"
    /\ botInstance = 0
    /\ ~isStarting
    /\ runsStarted < MaxRuns
    /\ isStarting' = TRUE
    /\ startPc' = "importing"
    /\ UNCHANGED <<botInstance, stopRequested, botProcess, dashRunning,
                   stopPc, stopWait, runsStarted, runPhase, executing,
                   unitsLeft, stopAccepted, startedAfterStop>>
    /\ ctlFrame

\* start() after the import: the instance is created and the async body
\* runs up to its await of initialize(); a failing import ends in cleanup
StartLaunch ==
    /\ startPc = "importing"
    /\ startPc' = "idle"
    /\ isStarting' = FALSE
    /\ \E ok \in BOOLEAN, n \in 1..MaxUnits :
        IF ok
        THEN /\ runsStarted' = runsStarted + 1
             /\ botInstance' = runsStarted + 1
             /\ botProcess' = runsStarted + 1
             /\ dashRunning' = TRUE
             /\ runPhase' = [runPhase EXCEPT ![runsStarted + 1] = "init"]
             /\ unitsLeft' = [unitsLeft EXCEPT ![runsStarted + 1] = n]
             /\ UNCHANGED stopRequested
        ELSE /\ cleanup
             /\ UNCHANGED <<runsStarted, runPhase, unitsLeft>>
    /\ UNCHANGED <<stopPc, stopWait, executing, stopAccepted,
                   startedAfterStop>>
    /\ ctlFrame

\* the stop() call that awaits run r continues right after r's cleanup
StopContinues(r) ==
    IF stopPc = "waiting" /\ stopWait = r
    THEN stopPc' = "idle" /\ stopWait' = 0
    ELSE UNCHANGED <<stopPc, stopWait>>

\* the async body after initialize(): abort on the stop flag, otherwise
\* call run() on whatever this.botInstance is now (null throws)
RunInitialized(r) ==
    /\ runPhase[r] = "init"
    /\ \E ok \in BOOLEAN :
        IF ok /\ ~stopRequested /\ botInstance # 0
        THEN /\ runPhase' = [runPhase EXCEPT ![r] = "run"]
             /\ executing' = [executing EXCEPT ![r] = botInstance]
             /\ UNCHANGED <<botInstance, stopRequested, botProcess,
                            dashRunning, stopPc, stopWait>>
        ELSE /\ runPhase' = [runPhase EXCEPT ![r] = "done"]
             /\ cleanup
             /\ StopContinues(r)
             /\ UNCHANGED executing
    /\ UNCHANGED <<isStarting, startPc, runsStarted, unitsLeft, stopAccepted,
                   startedAfterStop>>
    /\ ctlFrame

\* botInstance.run() starts its next work unit; the stop flag is a private
\* field of the controller and is not passed to the bot
RunUnit(r) ==
    /\ runPhase[r] = "run"
    /\ unitsLeft[r] > 0
    /\ unitsLeft' = [unitsLeft EXCEPT ![r] = @ - 1]
    /\ startedAfterStop' = (startedAfterStop \/ stopAccepted[r])
    /\ UNCHANGED <<botInstance, isStarting, stopRequested, botProcess,
                   dashRunning, startPc, stopPc, stopWait, runsStarted,
                   runPhase, executing, stopAccepted>>
    /\ ctlFrame

\* run() returns or throws: the finally of the async body runs cleanup
RunEnds(r) ==
    /\ runPhase[r] = "run"
    /\ \E failed \in BOOLEAN : failed \/ unitsLeft[r] = 0
    /\ runPhase' = [runPhase EXCEPT ![r] = "done"]
    /\ cleanup
    /\ StopContinues(r)
    /\ UNCHANGED <<isStarting, startPc, runsStarted, executing, unitsLeft,
                   stopAccepted, startedAfterStop>>
    /\ ctlFrame

\* stop(): accepted when a bot instance exists; sets the flag and waits for
\* botProcess or 10 seconds, whichever comes first
StopBegin ==
    /\ stopPc = "idle"
    /\ botInstance # 0
    /\ stopAccepted' = [r \in RunIds |-> stopAccepted[r] \/ r \in LiveRuns]
    /\ IF botProcess # 0
       THEN /\ stopRequested' = TRUE
            /\ stopPc' = "waiting"
            /\ stopWait' = botProcess
            /\ UNCHANGED <<botInstance, botProcess, dashRunning>>
       ELSE /\ cleanup
            /\ UNCHANGED <<stopPc, stopWait>>
    /\ UNCHANGED <<isStarting, startPc, runsStarted, runPhase, executing,
                   unitsLeft, startedAfterStop>>
    /\ ctlFrame

\* the 10 s timer wins the race: stop() runs cleanup and reports success
StopTimeout ==
    /\ stopPc = "waiting"
    /\ stopPc' = "idle"
    /\ stopWait' = 0
    /\ botInstance' = 0
    /\ botProcess' = 0
    /\ dashRunning' = FALSE
    /\ stopRequested' = stopFlagAfterWait(stopRequested)
    /\ UNCHANGED <<isStarting, startPc, runsStarted, runPhase, executing,
                   unitsLeft, stopAccepted, startedAfterStop>>
    /\ ctlFrame

NextCtl ==
    \/ StartBegin
    \/ StartLaunch
    \/ \E r \in RunIds : RunInitialized(r)
    \/ \E r \in RunIds : RunUnit(r)
    \/ \E r \in RunIds : RunEnds(r)
    \/ StopBegin
    \/ StopTimeout

\* ------------------------------------- RecoveryHandler and the orchestrator
MaxPasses == 2
MaxClusters == 2

Lower(c) == CASE c = "A" -> "a" [] c = "B" -> "b" [] OTHER -> c
LowerSeq(s) == [i \in 1..Len(s) |-> Lower(s[i])]
LowerDomain(d) == CASE d = "D1" -> "d1" [] d = "D2" -> "d2" [] OTHER -> d

\* accounts.jsonc: email and recoveryEmail of each account
AccountEmail ==
    [a \in Accounts |->
        IF a = "a1" THEN [local |-> <<"a", "b">>, domain |-> "d1"]
        ELSE [local |-> <<"b">>, domain |-> "D1"]]
RecoveryEmail ==
    [a \in Accounts |->
        IF a = "a1" THEN [local |-> <<"B", "a", "b">>, domain |-> "D2"]
        ELSE [local |-> <<"a">>, domain |-> "d2"]]

\* parseRef: lower-cased domain and the first two characters of the local part
parseRef(e) ==
    [domain |-> LowerDomain(e.domain),
     prefix2 |-> LowerSeq(SubSeq(e.local, 1, Min(2, Len(e.local))))]

refsOf(a) ==
    {r \in {parseRef(RecoveryEmail[a]), parseRef(AccountEmail[a])} :
        r.domain # "" /\ r.prefix2 # <<>>}

\* what the page shows: the visible prefix (0 to 2 characters) and the
\* domain of the masked address, lower-cased by the handler
PrefixChars == {"a", "b"}
Observed ==
    [prefix : {<<>>} \cup {<<c>> : c \in PrefixChars}
                 \cup {<<c, d>> : c, d \in PrefixChars},
     domain : {"", "d1", "d2"}]

StartsWith(s, p) == Len(p) <= Len(s) /\ SubSeq(s, 1, Len(p)) = p

\* matchRef without the comparison of the prefix
matchRefDomainOnly(refs, obs) == \E r \in refs : r.domain = obs.domain

\* matchRef: some reference has the domain and the visible prefix
matchRef(refs, obs) ==
    \E r \in refs :
        /\ r.domain = obs.domain
        /\ IF Len(obs.prefix) = 1
           THEN StartsWith(r.prefix2, obs.prefix)
           ELSE r.prefix2 = obs.prefix

\* variant: the mismatch branch leaves the standby flag alone
standbyAfterCheckForgotten(standby, matched) == standby

\* the standby flag after the check: engaged when no reference matched
standbyAfterCheck(standby, matched) == IF ~matched THEN TRUE ELSE standby

InitRec ==
    /\ clusters \in 1..MaxClusters
    /\ taskState = [a \in Accounts |-> "idle"]
    /\ passNo = [a \in Accounts |-> 0]
    /\ mismatchSeen = FALSE
    /\ startedAfterMismatch = FALSE

InitRecIdle == InitRec /\ clusters = 1

recFrame == UNCHANGED <<flowVars, obsVars, fileVars, banVars, fuseVars,
                        ctlVars, toolVars>>

\* the worker pool takes the next task of an account: the standby flag is
\* checked before each task, at most clusters tasks run at a time
StartTask(a) ==
    /\ ~globalStandby
    /\ taskState[a] = "idle"
    /\ passNo[a] < MaxPasses
    /\ Cardinality({b \in Accounts : taskState[b] # "idle"}) < clusters
    /\ taskState' = [taskState EXCEPT ![a] = "login"]
    /\ startedAfterMismatch' = (startedAfterMismatch \/ mismatchSeen)
    /\ UNCHANGED <<clusters, passNo, mismatchSeen, botVars>>
    /\ recFrame

\* tryRecoveryMismatchCheck during login: nothing masked on the page, a
\* match (logged), or a mismatch: incident, compromised mode, global standby
TryRecoveryMismatchCheck(a) ==
    /\ taskState[a] = "login"
    /\ taskState' = [taskState EXCEPT ![a] = "work"]
    /\ \E shown \in BOOLEAN, obs \in Observed :
        LET matched == matchRef(refsOf(a), obs)
        IN IF shown /\ refsOf(a) # {} /\ ~matched
           THEN /\ incidents' = [incidents EXCEPT ![a] = @ + 1]
                /\ compromisedModeActive' = TRUE
                /\ compromisedReason' = "recovery-mismatch"
                /\ globalStandby' = standbyAfterCheck(globalStandby, matched)
                /\ mismatchSeen' = TRUE
           ELSE UNCHANGED <<botVars, mismatchSeen>>
    /\ UNCHANGED <<clusters, passNo, startedAfterMismatch>>
    /\ recFrame

\* the task ends; the account's pass is over
FinishTask(a) ==
    /\ taskState[a] = "work"
    /\ taskState' = [taskState EXCEPT ![a] = "idle"]
    /\ passNo' = [passNo EXCEPT ![a] = @ + 1]
    /\ UNCHANGED <<clusters, mismatchSeen, startedAfterMismatch, botVars>>
    /\ recFrame

NextRec ==
    \/ \E a \in Accounts : StartTask(a)
    \/ \E a \in Accounts : TryRecoveryMismatchCheck(a)
    \/ \E a \in Accounts : FinishTask(a)

\* --------------------------------------------- Activities and handlers
MaxActivities == 2
MaxQuestions == 2

\* String.prototype.toLowerCase on the words the activities are made of
toLowerCase(w) ==
    CASE w = "Quiz" -> "quiz"
      [] w = "UrlReward" -> "urlreward"
      [] w = "PollScenarioId" -> "pollscenarioid"
      [] w = "ExploreOnBing" -> "exploreonbing"
      [] OTHER -> w

\* a URL or a name is a sequence of words; includes looks for one of them
includes(words, needle) ==
    \E i \in 1..Len(words) : toLowerCase(words[i]) = needle

\* the activities of the dashboard ("" stands for a missing promotionType)
ActivitySet ==
    [promotionType : {"quiz", "Quiz", "urlreward", "UrlReward", "tour", ""},
     pointProgressMax : {10, 30, 50},
     destinationUrl : {<<"bing">>, <<"bing", "PollScenarioId">>},
     name : {<<"daily">>, <<"ExploreOnBing", "de">>}]

\* Activities.classifyActivity without the test of line 144
classifyActivityNoThisOrThat(a) ==
    LET type == toLowerCase(a.promotionType)
    IN CASE type = "quiz" ->
              IF a.pointProgressMax = 10
              THEN IF includes(a.destinationUrl, "pollscenarioid")
                   THEN "poll" ELSE "abc"
              ELSE "quiz"
         [] type = "urlreward" ->
              IF includes(a.name, "exploreonbing")
              THEN "searchOnBing" ELSE "urlReward"
         [] OTHER -> "unsupported"

classifyActivity(a) ==
    LET type == toLowerCase(a.promotionType)
    IN CASE type = "quiz" ->
              IF a.pointProgressMax = 10
              THEN IF includes(a.destinationUrl, "pollscenarioid")
                   THEN "poll" ELSE "abc"
              ELSE IF a.pointProgressMax = 50 THEN "thisOrThat" ELSE "quiz"
         [] type = "urlreward" ->
              IF includes(a.name, "exploreonbing")
              THEN "searchOnBing" ELSE "urlReward"
         [] OTHER -> "unsupported"

\* the handlers that work in the tab they were given
TabHandlers == {"poll", "abc", "thisOrThat", "quiz", "urlReward"}
\* the handlers that answer a number of questions
RoundHandlers == {"abc", "thisOrThat", "quiz"}

\* the statement after the question loop: doABC (line 83) and doQuiz
\* (line 255) close the page, doThisOrThat (lines 58-63) only logs
closesOnCompletion(k) == k # "thisOrThat"

\* Activities.run lines 101-108: the catch block logs and swallows
propagatesRaised(wasRaised) == wasRaised

propagates(wasRaised) == FALSE

NoActivity ==
    [promotionType |-> "", pointProgressMax |-> 30,
     destinationUrl |-> <<"bing">>, name |-> <<"daily">>]

InitAct ==
    /\ activity = NoActivity
    /\ kind = "none"
    /\ actPc = "idle"
    /\ tabOpen = FALSE
    /\ roundsLeft = 0
    /\ handlerExit = "none"
    /\ raised = FALSE
    /\ runOutcome = "none"
    /\ dispatcherLogged = FALSE
    /\ unitsDone = 0

actFrame == UNCHANGED <<coreVars, textVars, jsoncVars, edgeVars, utilVars>>

\* the caller opens the activity in a tab and calls Activities.run with it
\* (line 60: the activity is classified before the try block)
RunActivity ==
    /\ actPc = "idle"
    /\ unitsDone < MaxActivities
    /\ \E a \in ActivitySet :
        /\ activity' = a
        /\ kind' = classifyActivity(a)
    /\ actPc' = "dispatched"
    /\ tabOpen' = TRUE
    /\ roundsLeft' = 0
    /\ handlerExit' = "none"
    /\ raised' = FALSE
    /\ runOutcome' = "none"
    /\ dispatcherLogged' = FALSE
    /\ UNCHANGED unitsDone
    /\ actFrame

\* the handler has ended: by completing, by an early return, or through its
\* own catch block, which closes the page and logs
HandlerEnds(how, closes) ==
    /\ handlerExit' = how
    /\ tabOpen' = (tabOpen /\ ~closes)
    /\ actPc' = "handlerDone"

\* the first part of doPoll, doABC, doThisOrThat, doQuiz, doUrlReward: up to
\* the question loop, or to the end for the handlers without one
HandlerBegin ==
    /\ actPc = "dispatched"
    /\ kind \in TabHandlers
    /\ \E r \in {"throws", "notFound", "ok"}, n \in 0..MaxQuestions :
        CASE r = "throws" ->
               HandlerEnds("error", TRUE) /\ UNCHANGED roundsLeft
          [] r = "notFound" /\ kind \in {"poll", "quiz"} ->
               HandlerEnds("earlyReturn", TRUE) /\ UNCHANGED roundsLeft
          [] r = "ok" /\ kind \in {"poll", "urlReward"} ->
               HandlerEnds("completed", TRUE) /\ UNCHANGED roundsLeft
          [] r = "ok" /\ kind \in RoundHandlers ->
               /\ roundsLeft' = n
               /\ actPc' = "round"
               /\ UNCHANGED <<handlerExit, tabOpen>>
          [] OTHER -> FALSE
    /\ UNCHANGED <<activity, kind, raised, runOutcome, dispatcherLogged,
                   unitsDone>>
    /\ actFrame

\* one question: doABC breaks out of the loop when an element is missing,
\* doThisOrThat and doQuiz close the page and return when the quiz does not
\* refresh (doQuiz also when no answer is found)
HandlerRound ==
    /\ actPc = "round"
    /\ roundsLeft > 0
    /\ \E r \in {"throws", "fails", "ok"} :
        CASE r = "throws" ->
               HandlerEnds("error", TRUE) /\ UNCHANGED roundsLeft
          [] r = "fails" /\ kind = "abc" ->
               roundsLeft' = 0 /\ UNCHANGED <<handlerExit, tabOpen, actPc>>
          [] r = "fails" /\ kind # "abc" ->
               HandlerEnds("earlyReturn", TRUE) /\ UNCHANGED roundsLeft
          [] OTHER ->
               /\ roundsLeft' = roundsLeft - 1
               /\ UNCHANGED <<handlerExit, tabOpen, actPc>>
    /\ UNCHANGED <<activity, kind, raised, runOutcome, dispatcherLogged,
                   unitsDone>>
    /\ actFrame

\* after the last question
HandlerCompletes ==
    /\ actPc = "round"
    /\ roundsLeft = 0
    /\ HandlerEnds("completed", closesOnCompletion(kind))
    /\ UNCHANGED <<activity, kind, roundsLeft, raised, runOutcome,
                   dispatcherLogged, unitsDone>>
    /\ actFrame

\* doSearchOnBing: it either returns or raises (whether it closes the tab is
\* left open)
DoSearchOnBing ==
    /\ actPc = "dispatched"
    /\ kind = "searchOnBing"
    /\ \E r \in BOOLEAN, closes \in BOOLEAN :
        /\ raised' = r
        /\ HandlerEnds(IF r THEN "raised" ELSE "completed", closes)
    /\ UNCHANGED <<activity, kind, roundsLeft, runOutcome, dispatcherLogged,
                   unitsDone>>
    /\ actFrame

\* lines 81-88: an unsupported activity is logged and skipped
SkipUnsupported ==
    /\ actPc = "dispatched"
    /\ kind = "unsupported"
    /\ HandlerEnds("skipped", FALSE)
    /\ UNCHANGED <<activity, kind, roundsLeft, raised, runOutcome,
                   dispatcherLogged, unitsDone>>
    /\ actFrame

\* lines 101-109: the catch block of the dispatcher, then run returns and
\* the caller goes on with the next unit
RunReturns ==
    /\ actPc = "handlerDone"
    /\ dispatcherLogged' = raised
    /\ IF propagates(raised)
       THEN /\ runOutcome' = "thrown"
            /\ actPc' = "failed"
            /\ UNCHANGED unitsDone
       ELSE /\ runOutcome' = "returned"
            /\ actPc' = "idle"
            /\ unitsDone' = unitsDone + 1
    /\ UNCHANGED <<activity, kind, tabOpen, roundsLeft, handlerExit, raised>>
    /\ actFrame

NextAct ==
    \/ RunActivity
    \/ HandlerBegin
    \/ HandlerRound
    \/ HandlerCompletes
    \/ DoSearchOnBing
    \/ SkipUnsupported
    \/ RunReturns

\* ------------------------------------- disableBannedAccount on the text
MaxItems == 2
MaxCalls == 2
MaxDays == 2

\* what accounts.jsonc is made of: // comments and account objects; enabled
\* is "true", "false" or "absent"
Comments == {[t |-> "comment", text |-> <<"note">>]}
AccountObjects ==
    [t : {"account"}, email : Accounts, enabled : {"true", "false", "absent"}]
Items == Comments \cup AccountObjects

ItemSeqs(n) == UNION {[1..k -> Items] : k \in 1..n}

\* the file is an array of accounts or an object with an accounts property
TextFiles(n) == [format : {"array", "object"}, items : ItemSeqs(n)]

\* lines 40-42: stripJsonComments and JSON.parse leave the account objects
parsedAccounts(file) == SelectSeq(file.items, LAMBDA it : it.t = "account")

\* lines 49-55: Array.prototype.findIndex, 0 when there is none
findIndex(accs, email) ==
    IF \E i \in 1..Len(accs) : accs[i].email = email
    THEN CHOOSE i \in 1..Len(accs) :
            /\ accs[i].email = email
            /\ \A j \in 1..(i - 1) : accs[j].email # email
    ELSE 0

\* line 61: the account was disabled before
alreadyDisabledNever(acc) == FALSE

alreadyDisabled(acc) == acc.enabled = "false"

\* lines 76-77
banComment(date, reason) ==
    [t |-> "comment", text |-> <<"BANNED", date, reason>>]

\* lines 73-126: the file is written anew from the parsed accounts, with the
\* ban comment in front of the disabled account
rebuiltItems(accs, idx, comment) ==
    SubSeq(accs, 1, idx - 1)
      \o <<comment, [accs[idx] EXCEPT !.enabled = "false"]>>
      \o SubSeq(accs, idx + 1, Len(accs))

\* disableBannedAccount as a function of the file's text: the new text,
\* whether it was written, whether the call threw
disableInAccountsFile(file, email, date, reason) ==
    LET accs == parsedAccounts(file)
        idx == findIndex(accs, email)
    IN IF idx = 0
       THEN [file |-> file, wrote |-> FALSE, threw |-> TRUE]
       ELSE IF alreadyDisabled(accs[idx])
       THEN [file |-> file, wrote |-> FALSE, threw |-> FALSE]
       ELSE [file |-> [format |-> file.format,
                       items |-> rebuiltItems(accs, idx,
                                              banComment(date, reason))],
             wrote |-> TRUE, threw |-> FALSE]

InitTextIdle ==
    /\ jsoncFile = [format |-> "array", items |-> <<>>]
    /\ disableLog = <<>>

InitText ==
    /\ jsoncFile \in TextFiles(MaxItems)
    /\ disableLog = <<>>

\* one call of disableBannedAccount; the log keeps the text before and after
DisableBannedAccount(email) ==
    /\ Len(disableLog) < MaxCalls
    /\ \E date \in 1..MaxDays, reason \in {"suspended"} :
        LET r == disableInAccountsFile(jsoncFile, email, date, reason)
        IN /\ jsoncFile' = r.file
           /\ disableLog' = Append(disableLog,
                                   [email |-> email, before |-> jsoncFile,
                                    after |-> r.file, wrote |-> r.wrote,
                                    threw |-> r.threw])
    /\ UNCHANGED <<coreVars, actVars, jsoncVars, edgeVars, utilVars>>

NextText == \E email \in Accounts : DisableBannedAccount(email)

\* ----------------------------------------------------------- JsoncParser
MaxLen == 5
MaxElems == 1
MaxStrLen == 2

\* a text is a sequence of characters; "dq" is the double quote, "sq" the
\* single quote, "bs" the backslash, "nl" the line feed, "sp" the space
Chars == {"dq", "sq", "bs", "/", "*", "nl", "a"}
CharSeqs(n) == UNION {[1..k -> Chars] : k \in 0..n}

\* input[i], undefined past the end
charAt(input, i) == IF i >= 1 /\ i <= Len(input) THEN input[i] ELSE "undefined"

\* line 49: a backslash inside a string takes the next character with it
isEscapeNever(char) == FALSE

isEscape(char) == char = "bs"

\* lines 27-78: the loop of stripJsonComments from index i on, with its flags
RECURSIVE stripLoop(_, _, _, _, _, _)
stripLoop(input, i, inString, stringChar, inLineComment, inBlockComment) ==
    IF i > Len(input) THEN <<>>
    ELSE
      LET char == input[i]
          next == charAt(input, i + 1)
      IN CASE inLineComment ->
                IF char \in {"nl", "cr"}
                THEN <<char>> \o stripLoop(input, i + 1, FALSE, stringChar,
                                           FALSE, FALSE)
                ELSE stripLoop(input, i + 1, FALSE, stringChar, TRUE, FALSE)
           [] inBlockComment ->
                IF char = "*" /\ next = "/"
                THEN stripLoop(input, i + 2, FALSE, stringChar, FALSE, FALSE)
                ELSE stripLoop(input, i + 1, FALSE, stringChar, FALSE, TRUE)
           [] inString ->
                IF isEscape(char)
                THEN <<char>>
                       \o (IF i + 1 <= Len(input) THEN <<input[i + 1]>>
                           ELSE <<>>)
                       \o stripLoop(input, i + 2, TRUE, stringChar, FALSE,
                                    FALSE)
                ELSE <<char>>
                       \o stripLoop(input, i + 1, char # stringChar,
                                    stringChar, FALSE, FALSE)
           [] char \in {"dq", "sq"} ->
                <<char>> \o stripLoop(input, i + 1, TRUE, char, FALSE, FALSE)
           [] char = "/" /\ next = "/" ->
                stripLoop(input, i + 2, FALSE, stringChar, TRUE, FALSE)
           [] char = "/" /\ next = "*" ->
                stripLoop(input, i + 2, FALSE, stringChar, FALSE, TRUE)
           [] OTHER ->
                <<char>> \o stripLoop(input, i + 1, FALSE, stringChar, FALSE,
                                      FALSE)

stripJsonComments(input) == stripLoop(input, 1, FALSE, "", FALSE, FALSE)

\* the regular expression of removeTrailingCommas: \s
isSpace(char) == char \in {"sp", "nl", "cr"}

\* the index of the first character from i on that is no white space
RECURSIVE skipSpace(_, _)
skipSpace(input, i) ==
    IF i <= Len(input) /\ isSpace(input[i]) THEN skipSpace(input, i + 1)
    ELSE i

\* line 95: every comma that white space and then } or ] follow is dropped,
\* wherever in the text it stands
RECURSIVE removeFrom(_, _)
removeFrom(input, i) ==
    IF i > Len(input) THEN <<>>
    ELSE IF input[i] = ","
            /\ charAt(input, skipSpace(input, i + 1)) \in {"}", "]"}
         THEN removeFrom(input, i + 1)
         ELSE <<input[i]>> \o removeFrom(input, i + 1)

removeTrailingCommas(input) == removeFrom(input, 1)

\* strict JSON, as far as the model goes: arrays of strings
StrChars == {",", "]", "}", "/"}
JsonStrings == UNION {[1..k -> StrChars] : k \in 0..MaxStrLen}
JsonValues == UNION {[1..k -> JsonStrings] : k \in 0..MaxElems}

\* JSON.stringify without indentation
RECURSIVE elementsText(_, _)
elementsText(v, i) ==
    IF i > Len(v) THEN <<>>
    ELSE (IF i > 1 THEN <<",">> ELSE <<>>)
           \o <<"dq">> \o v[i] \o <<"dq">> \o elementsText(v, i + 1)

jsonText(v) == <<"[">> \o elementsText(v, 1) \o <<"]">>

JsonTexts == {jsonText(v) : v \in JsonValues}

\* the result of JSON.parse: a value, or a SyntaxError
Parsed(v) == [ok |-> TRUE, value |-> v]
SyntaxError == [ok |-> FALSE, value |-> <<>>]

\* the index of the quote that closes the string whose body starts at i, 0
\* when the string is not closed (escapes and control characters are not
\* part of the strings of the model)
RECURSIVE closingQuote(_, _)
closingQuote(text, i) ==
    IF i > Len(text) \/ text[i] \in {"bs", "nl", "cr"} THEN 0
    ELSE IF text[i] = "dq" THEN i
    ELSE closingQuote(text, i + 1)

\* the elements of an array from index i on, acc holding those read so far
RECURSIVE parseElements(_, _, _)
parseElements(text, i, acc) ==
    IF charAt(text, i) # "dq" THEN SyntaxError
    ELSE LET j == closingQuote(text, i + 1)
             elems == Append(acc, SubSeq(text, i + 1, j - 1))
         IN IF j = 0 THEN SyntaxError
            ELSE IF charAt(text, j + 1) = "]" /\ j + 1 = Len(text)
            THEN Parsed(elems)
            ELSE IF charAt(text, j + 1) = ","
            THEN parseElements(text, j + 2, elems)
            ELSE SyntaxError

\* JSON.parse on the texts of the model: an array of strings
JSONparse(text) ==
    IF charAt(text, 1) # "[" THEN SyntaxError
    ELSE IF Len(text) = 2 /\ text[2] = "]" THEN Parsed(<<>>)
    ELSE parseElements(text, 2, <<>>)

InitJsoncIdle ==
    /\ jsoncInput = <<>>
    /\ jsoncPhase = "idle"
    /\ jsoncText = <<>>
    /\ jsoncValue = SyntaxError

InitJsonc ==
    /\ jsoncInput \in CharSeqs(MaxLen) \cup JsonTexts
    /\ jsoncPhase = "raw"
    /\ jsoncText = jsoncInput
    /\ jsoncValue = SyntaxError

jsoncFrame == UNCHANGED <<coreVars, actVars, textVars, edgeVars, utilVars>>

\* parseJsonc line 106
StripJsonComments ==
    /\ jsoncPhase = "raw"
    /\ jsoncText' = stripJsonComments(jsoncText)
    /\ jsoncPhase' = "stripped"
    /\ UNCHANGED <<jsoncInput, jsoncValue>>
    /\ jsoncFrame

\* parseJsonc line 107
RemoveTrailingCommas ==
    /\ jsoncPhase = "stripped"
    /\ jsoncText' = removeTrailingCommas(jsoncText)
    /\ jsoncPhase' = "noTrailing"
    /\ UNCHANGED <<jsoncInput, jsoncValue>>
    /\ jsoncFrame

\* parseJsonc line 108
JsonParse ==
    /\ jsoncPhase = "noTrailing"
    /\ jsoncValue' = JSONparse(jsoncText)
    /\ jsoncPhase' = "parsed"
    /\ UNCHANGED <<jsoncInput, jsoncText>>
    /\ jsoncFrame

NextJsonc ==
    \/ StripJsonComments
    \/ RemoveTrailingCommas
    \/ JsonParse

\* ------------------------------------------------------- getEdgeVersions
MaxCallers == 3
MaxFetches == 2
MaxTime == 2
\* AccountHistory: runs recorded, steps of the clock
MaxSaves == 3
MaxHistoryTicks == 2
\* PasskeyHandler: calls of the handler
MaxPrompts == 2
\* the ban patterns that match one response body
MaxMatches == 2
\* setupTLSProtection: requests routed, the clock in milliseconds
MaxRequests == 2
MaxRouteTime == 20

\* line 27, in hours
EDGE_VERSION_CACHE_TTL == 1
\* lines 30-33
FALLBACK_EDGE_VERSIONS == "fallback"

\* what the Edge API can answer
EdgeData == {"v1", "v2"}
CallerIds == 1..MaxCallers
FetchIds == 1..MaxFetches

NoCache == [data |-> "none", expiresAt |-> 0]
NoFetch == [status |-> "unused", value |-> "none", failed |-> FALSE,
            stale |-> "none"]
NoCaller == [pc |-> "idle", awaits |-> 0, result |-> "none",
             arrivedDuring |-> 0, started |-> 0]

\* line 110
cacheValid(cache, t) == cache # NoCache /\ cache.expiresAt > t

\* line 115: a promise in flight is awaited
joinsInFlightNever(inFlight) == FALSE

joinsInFlight(inFlight) == inFlight # 0

\* lines 137-146: what the catch handler of the fetch returns
failureValueStatic(cache) == FALLBACK_EDGE_VERSIONS

failureValue(cache) ==
    IF cache # NoCache THEN cache.data ELSE FALLBACK_EDGE_VERSIONS

PendingFetches == {f \in FetchIds : fetches[f].status = "pending"}

InitEdgeIdle ==
    /\ edgeVersionCache = NoCache
    /\ edgeVersionInFlight = 0
    /\ edgeNow = 0
    /\ fetches = [f \in FetchIds |-> NoFetch]
    /\ callers = [c \in CallerIds |-> NoCaller]

InitEdge == InitEdgeIdle

edgeFrame == UNCHANGED <<coreVars, actVars, textVars, jsoncVars, utilVars>>

\* lines 106-150, which run without a pause: answer from the cache, await
\* the promise in flight, or start a fetch and publish its promise
GetEdgeVersions(c) ==
    /\ callers[c].pc = "idle"
    /\ LET during == IF PendingFetches = {} THEN 0
                     ELSE CHOOSE f \in PendingFetches : TRUE
       IN IF cacheValid(edgeVersionCache, edgeNow)
          THEN /\ callers' = [callers EXCEPT ![c] =
                               [pc |-> "returned", awaits |-> 0,
                                result |-> edgeVersionCache.data,
                                arrivedDuring |-> 0, started |-> 0]]
               /\ UNCHANGED <<edgeVersionInFlight, fetches>>
          ELSE IF joinsInFlight(edgeVersionInFlight)
          THEN /\ callers' = [callers EXCEPT ![c] =
                               [pc |-> "waiting",
                                awaits |-> edgeVersionInFlight,
                                result |-> "none",
                                arrivedDuring |-> during, started |-> 0]]
               /\ UNCHANGED <<edgeVersionInFlight, fetches>>
          ELSE /\ \E f \in FetchIds :
                    /\ fetches[f].status = "unused"
                    /\ \A g \in FetchIds : g < f => fetches[g].status # "unused"
                    /\ fetches' = [fetches EXCEPT ![f].status = "pending"]
                    /\ edgeVersionInFlight' = f
                    /\ callers' = [callers EXCEPT ![c] =
                                    [pc |-> "waiting", awaits |-> f,
                                     result |-> "none",
                                     arrivedDuring |-> during,
                                     started |-> f]]
    /\ UNCHANGED <<edgeVersionCache, edgeNow>>
    /\ edgeFrame

\* fetchEdgeVersionsWithRetry settles and the handler of lines 129-147 runs
FetchSettles(f) ==
    /\ fetches[f].status = "pending"
    /\ \E ok \in BOOLEAN, data \in EdgeData :
        IF ok
        THEN /\ edgeVersionCache' =
                  [data |-> data,
                   expiresAt |-> edgeNow + EDGE_VERSION_CACHE_TTL]
             /\ fetches' = [fetches EXCEPT ![f] =
                             [status |-> "settled", value |-> data,
                              failed |-> FALSE, stale |-> "none"]]
        ELSE /\ edgeVersionCache' =
                  IF edgeVersionCache # NoCache THEN edgeVersionCache
                  ELSE [data |-> FALLBACK_EDGE_VERSIONS,
                        expiresAt |-> edgeNow + EDGE_VERSION_CACHE_TTL]
             /\ fetches' = [fetches EXCEPT ![f] =
                             [status |-> "settled",
                              value |-> failureValue(edgeVersionCache),
                              failed |-> TRUE,
                              stale |-> edgeVersionCache.data]]
    /\ edgeVersionInFlight' = 0
    /\ UNCHANGED <<edgeNow, callers>>
    /\ edgeFrame

\* a caller that awaited the promise gets its value (line 117, line 150)
CallerResumes(c) ==
    /\ callers[c].pc = "waiting"
    /\ fetches[callers[c].awaits].status = "settled"
    /\ callers' = [callers EXCEPT ![c].pc = "returned",
                                  ![c].result = fetches[callers[c].awaits].value]
    /\ UNCHANGED <<edgeVersionCache, edgeVersionInFlight, edgeNow, fetches>>
    /\ edgeFrame

\* Date.now() moves on
EdgeTick ==
    /\ edgeNow < MaxTime
    /\ edgeNow' = edgeNow + 1
    /\ UNCHANGED <<edgeVersionCache, edgeVersionInFlight, fetches, callers>>
    /\ edgeFrame

NextEdge ==
    \/ \E c \in CallerIds : GetEdgeVersions(c)
    \/ \E f \in FetchIds : FetchSettles(f)
    \/ \E c \in CallerIds : CallerResumes(c)
    \/ EdgeTick

\* ---------------------------------------------------- AccountHistory
\* JSON.stringify(data): the text as the pieces writeFileSync puts on disk
Piece(k, v) == [k |-> k, v |-> v]

RECURSIVE entryPieces(_)
entryPieces(h) ==
    IF h = <<>> THEN <<>>
    ELSE <<Piece("entry", Head(h))>> \o entryPieces(Tail(h))

stringify(data) ==
    <<Piece("{", 0), Piece("totalRuns", data.totalRuns)>>
      \o entryPieces(data.history) \o <<Piece("}", 0)>>

\* JSON.parse of the text of a history file
NoHistory == [ok |-> FALSE, totalRuns |-> 0, history |-> <<>>]

RECURSIVE entriesOf(_)
entriesOf(t) ==
    IF t = <<>> THEN <<>> ELSE <<Head(t).v>> \o entriesOf(Tail(t))

parseHistory(t) ==
    IF /\ Len(t) >= 3
       /\ t[1].k = "{" /\ t[2].k = "totalRuns" /\ t[Len(t)].k = "}"
       /\ \A i \in 3..(Len(t) - 1) : t[i].k = "entry"
    THEN [ok |-> TRUE, totalRuns |-> t[2].v,
          history |-> entriesOf(SubSeq(t, 3, Len(t) - 1))]
    ELSE NoHistory

\* the file: absent, or present with the pieces written so far
NoFile == [exists |-> FALSE, text |-> <<>>]

loadHistory(file) ==
    IF ~file.exists THEN NoHistory ELSE parseHistory(file.text)

\* getAccountHistory for a file that loads: the stored history
getAccountHistory(file) == loadHistory(file)

\* the days of history kept
retentionDays == 90

RECURSIVE keepRecent(_, _)
keepRecent(h, today) ==
    IF h = <<>> THEN <<>>
    ELSE IF Head(h) >= today - retentionDays
         THEN <<Head(h)>> \o keepRecent(Tail(h), today)
         ELSE keepRecent(Tail(h), today)

\* addEntry up to its save: the entry appended, the count raised, the old
\* entries dropped
withEntry(data, timestamp, today) ==
    [ok |-> TRUE, totalRuns |-> data.totalRuns + 1,
     history |-> keepRecent(Append(data.history, timestamp), today)]

\* fs.writeFileSync(filePath, text): the file is opened with truncation
openForWrite(file) == [exists |-> TRUE, text |-> <<>>]

InitHistIdle ==
    /\ historyFile = NoFile
    /\ historyPc = "idle"
    /\ historyPending = <<>>
    /\ historyBefore = NoFile
    /\ historyNow = 0
    /\ historyRuns = 0

InitHist == InitHistIdle

histFrame == UNCHANGED histRest

\* a new history, as getAccountHistory builds it
newHistory == [ok |-> TRUE, totalRuns |-> 0, history |-> <<>>]

\* addEntry(email, entry) for an account whose history file loads: up to the
\* start of the write of saveHistory
AddEntry ==
    /\ historyPc = "idle"
    /\ historyRuns < MaxSaves
    /\ loadHistory(historyFile).ok
    /\ \E timestamp \in {historyNow} :
         historyPending' =
             stringify(withEntry(getAccountHistory(historyFile), timestamp,
                                 historyNow))
    /\ historyBefore' = historyFile
    /\ historyFile' = openForWrite(historyFile)
    /\ historyPc' = "writing"
    /\ historyRuns' = historyRuns + 1
    /\ UNCHANGED historyNow
    /\ histFrame

\* addEntry for an account whose history file is absent or does not parse:
\* getAccountHistory saves a new history first
AddFirstEntry ==
    /\ historyPc = "idle"
    /\ historyRuns < MaxSaves
    /\ ~loadHistory(historyFile).ok
    /\ historyPending' = stringify(newHistory)
    /\ historyBefore' = historyFile
    /\ historyFile' = openForWrite(historyFile)
    /\ historyPc' = "creating"
    /\ historyRuns' = historyRuns + 1
    /\ UNCHANGED historyNow
    /\ histFrame

\* ... and addEntry goes on with the new history, saved or not
AddEntryContinues ==
    /\ historyPc \in {"created", "createFailed"}
    /\ \E timestamp \in {historyNow} :
         historyPending' =
             stringify(withEntry(newHistory, timestamp, historyNow))
    /\ historyBefore' = historyFile
    /\ historyFile' = openForWrite(historyFile)
    /\ historyPc' = "writing"
    /\ UNCHANGED <<historyNow, historyRuns>>
    /\ histFrame

\* writeFileSync puts the next piece of the text on disk
WritePiece ==
    /\ historyPc \in {"writing", "creating"}
    /\ Len(historyFile.text) < Len(historyPending)
    /\ historyFile' =
         [historyFile EXCEPT
            !.text = Append(@, historyPending[Len(historyFile.text) + 1])]
    /\ historyPc' = IF Len(historyFile'.text) < Len(historyPending)
                    THEN historyPc
                    ELSE IF historyPc = "creating" THEN "created" ELSE "idle"
    /\ UNCHANGED <<historyPending, historyBefore, historyNow, historyRuns>>
    /\ histFrame

\* the write fails part-way (disk full, I/O error): saveHistory catches the
\* error and returns
WriteFails ==
    /\ historyPc \in {"writing", "creating"}
    /\ historyPc' = IF historyPc = "creating" THEN "createFailed" ELSE "failed"
    /\ UNCHANGED <<historyFile, historyPending, historyBefore, historyNow,
                   historyRuns>>
    /\ histFrame

\* the process is killed during the write
Crash ==
    /\ historyPc \in {"writing", "creating"}
    /\ historyPc' = "crashed"
    /\ UNCHANGED <<historyFile, historyPending, historyBefore, historyNow,
                   historyRuns>>
    /\ histFrame

\* the bot goes on after a failed write, or is started again after a crash
Resume ==
    /\ historyPc \in {"failed", "crashed"}
    /\ historyPc' = "idle"
    /\ UNCHANGED <<historyFile, historyPending, historyBefore, historyNow,
                   historyRuns>>
    /\ histFrame

\* time passes between runs
HistoryTick ==
    /\ historyPc = "idle"
    /\ historyNow < MaxHistoryTicks * retentionDays
    /\ historyNow' = historyNow + retentionDays
    /\ UNCHANGED <<historyFile, historyPc, historyPending, historyBefore,
                   historyRuns>>
    /\ histFrame

NextHist ==
    \/ AddEntry
    \/ AddFirstEntry
    \/ AddEntryContinues
    \/ WritePiece
    \/ WriteFails
    \/ Crash
    \/ Resume
    \/ HistoryTick

\* ------------------------------------------------ setupTLSProtection
\* request.resourceType()
ResourceTypes ==
    {"document", "stylesheet", "image", "media", "font", "script",
     "texttrack", "xhr", "fetch", "eventsource", "websocket", "manifest",
     "other"}

minDelay == 10
maxDelay == 30

\* lines 519-523: the requests continued at once, as they came
continuedAtOnce(resourceType) == resourceType \in {"image", "media", "font"}

\* lines 528-533
isCriticalDocumentOnly(resourceType) == resourceType = "document"

isCritical(resourceType) ==
    resourceType \in {"document", "xhr", "fetch", "script", "stylesheet"}

\* lines 536-542: the request is held back
throttled(resourceType, timeSinceLastRequest) ==
    ~isCritical(resourceType) /\ timeSinceLastRequest < minDelay

\* lines 549-565: the headers the request is continued with
finalHeaders(resourceType) ==
    IF \/ isCritical(resourceType)
       \/ resourceType = "script"
       \/ resourceType = "stylesheet"
    THEN "enhanced" ELSE "original"

NoRequest == [resourceType |-> "none", delay |-> 0, headers |-> "none"]

\* Date.now() is far beyond minDelay when the context is set up
InitRouteIdle ==
    /\ lastRequestTime = 0
    /\ routeNow = minDelay
    /\ routed = NoRequest
    /\ routedCount = 0

InitRoute == InitRouteIdle

routeFrame == UNCHANGED routeRest

\* the route handler, for one request
Route(resourceType) ==
    /\ routedCount < MaxRequests
    /\ routedCount' = routedCount + 1
    /\ IF continuedAtOnce(resourceType)
       THEN /\ routed' = [resourceType |-> resourceType, delay |-> 0,
                          headers |-> "original"]
            /\ UNCHANGED <<lastRequestTime, routeNow>>
       ELSE \E delay \in minDelay..maxDelay :
              LET waited == IF throttled(resourceType,
                                         routeNow - lastRequestTime)
                            THEN delay ELSE 0
              IN /\ routeNow' = routeNow + waited
                 /\ lastRequestTime' = routeNow'
                 /\ routed' = [resourceType |-> resourceType,
                               delay |-> waited,
                               headers |-> finalHeaders(resourceType)]
    /\ routeFrame

\* time passes between two requests
RouteTick ==
    /\ routeNow < MaxRouteTime
    /\ \E d \in {1, minDelay} : routeNow' = routeNow + d
    /\ UNCHANGED <<lastRequestTime, routed, routedCount>>
    /\ routeFrame

NextRoute ==
    \/ \E resourceType \in ResourceTypes : Route(resourceType)
    \/ RouteTick

\* ------------------------------------------------- LoginStateDetector
\* page.url(): the host, the portals named elsewhere in the URL (a return
\* address in the query), a path of the OAuth endpoints
Urls ==
    [host : {"rewards", "login", "other"},
     mentions : SUBSET {"rewards", "login"},
     oauthPath : BOOLEAN]

\* the page: what is visible on it, the text of its title and of its h1
TitleTexts == {"absent", "passkey", "blocked", "other"}

LoginPages ==
    [url : Urls, portal : BOOLEAN, emailInput : BOOLEAN,
     passwordInput : BOOLEAN, otcInput : BOOLEAN, title : TitleTexts,
     h1 : {"absent", "blocked", "other"}, h1First : BOOLEAN]

\* url.includes("rewards.bing.com") || url.includes("rewards.microsoft.com")
includesRewards(url) == url.host = "rewards" \/ "rewards" \in url.mentions

\* url.includes("login.live.com") || url.includes("login.microsoftonline.com")
includesLogin(url) == url.host = "login" \/ "login" \in url.mentions

\* url.includes("/oauth20_authorize.srf") || url.includes("/oauth20_desktop.srf")
includesOAuth(url) == url.oauthPath

\* the text of locator('[data-testid="title"], h1').first()
titleOrH1(page) ==
    IF page.h1 # "absent" /\ (page.h1First \/ page.title = "absent")
    THEN page.h1 ELSE page.title

detectState(page) ==
    IF includesRewards(page.url)
    THEN IF page.portal THEN "LoggedIn"
         ELSE IF includesLogin(page.url) \/ page.emailInput
              THEN "EmailPage"
              ELSE "Unknown"
    ELSE IF includesLogin(page.url)
    THEN IF page.emailInput THEN "EmailPage"
         ELSE IF page.passwordInput THEN "PasswordPage"
         ELSE IF page.otcInput THEN "TwoFactorRequired"
         ELSE IF page.title = "passkey" THEN "PasskeyPrompt"
         ELSE IF titleOrH1(page) = "blocked" THEN "Blocked"
         ELSE "Unknown"
    ELSE IF includesOAuth(page.url) THEN "EmailSubmitted"
    ELSE "Unknown"

NoLoginPage ==
    [url |-> [host |-> "other", mentions |-> {}, oauthPath |-> FALSE],
     portal |-> FALSE, emailInput |-> FALSE, passwordInput |-> FALSE,
     otcInput |-> FALSE, title |-> "absent", h1 |-> "absent",
     h1First |-> FALSE]

InitLoginIdle ==
    /\ loginPage = NoLoginPage
    /\ loginState = "none"

InitLogin ==
    /\ loginPage \in LoginPages
    /\ loginState = "none"

loginFrame == UNCHANGED loginRest

DetectState ==
    /\ loginState = "none"
    /\ loginState' = detectState(loginPage)
    /\ UNCHANGED loginPage
    /\ loginFrame

NextLogin == DetectState

\* ------------------------- detectAndHandleRecoveryMismatch on one page
\* the masked address of the page: the characters before the @ (visible
\* ones, then the mask) and the domain ("" when the text has none)
VisibleChars == {"a", "b", "B"}

MaskedLocals ==
    {<<"*", "*">>} \cup {<<c, "*", "*">> : c \in VisibleChars}
                   \cup {<<c, d, "*", "*">> : c, d \in VisibleChars}

MaskedAddresses == [local : MaskedLocals, domain : {"", "d1", "D1", "d2"}]

\* [a-zA-Z0-9]
isAlnum(c) == c \in {"a", "b", "A", "B"}

\* group 1 of maskRegex on an address that begins the match: one or two
\* leading characters of [a-zA-Z0-9]
group1(local) ==
    IF Len(local) >= 2 /\ isAlnum(local[1]) /\ isAlnum(local[2])
    THEN SubSeq(local, 1, 2)
    ELSE IF Len(local) >= 1 /\ isAlnum(local[1]) THEN SubSeq(local, 1, 1)
    ELSE <<>>

\* lines 142-147: the part before the @ without what is not a letter or a
\* digit, cut to two characters
RECURSIVE alnumOnly(_)
alnumOnly(local) ==
    IF local = <<>> THEN <<>>
    ELSE IF isAlnum(Head(local))
         THEN <<Head(local)>> \o alnumOnly(Tail(local))
         ELSE alnumOnly(Tail(local))

slice2(s) == SubSeq(s, 1, Min(2, Len(s)))

\* lines 124-147: observedPrefix and observedDomain, in lower case; the
\* regular expressions need a letter or digit before the mask and a domain
extractObserved(masked) ==
    LET use == group1(masked.local) # <<>> /\ masked.domain # ""
    IN [prefix |-> IF use THEN LowerSeq(group1(masked.local))
                   ELSE LowerSeq(slice2(alnumOnly(masked.local))),
        domain |-> LowerDomain(masked.domain)]

NoMasked == [local |-> <<"*", "*">>, domain |-> ""]

InitMatchIdle ==
    /\ matchAccount = "a1"
    /\ matchMasked = NoMasked
    /\ matchResult = "none"

InitMatch ==
    /\ matchAccount \in Accounts
    /\ matchMasked \in MaskedAddresses
    /\ matchResult = "none"

matchFrame == UNCHANGED matchRest

\* detectAndHandleRecoveryMismatch on a page that shows a masked address,
\* up to the verdict of line 159
DetectRecoveryMismatch ==
    /\ matchResult = "none"
    /\ matchResult' =
         IF refsOf(matchAccount) = {} THEN "skipped"
         ELSE IF matchRef(refsOf(matchAccount), extractObserved(matchMasked))
              THEN "match" ELSE "mismatch"
    /\ UNCHANGED <<matchAccount, matchMasked>>
    /\ matchFrame

NextMatch == DetectRecoveryMismatch

\* ------------------------------------------- the three ban detectors
\* the signals: a page, an HTTP response, an API error
Statuses == {200, 403, 429, 451}

KeySets ==
    {d \in SUBSET {BanPatternKeys[i] : i \in 1..Len(BanPatternKeys)} :
        Cardinality(d) <= MaxMatches}

NoPage == [urlBan |-> FALSE, text |-> {}, fails |-> FALSE]

Signal(source, page, status, rateHeader, hasResponse, data, message) ==
    [source |-> source, page |-> page, status |-> status,
     rateHeader |-> rateHeader, hasResponse |-> hasResponse, data |-> data,
     messageRateLimited |-> message]

Signals ==
    {Signal("page", p, 200, FALSE, FALSE, {}, FALSE) : p \in Pages}
      \cup {Signal("response", NoPage, st, h, FALSE, {}, FALSE) :
               st \in Statuses, h \in BOOLEAN}
      \cup {Signal("error", NoPage, st, FALSE, r, d, m) :
               st \in Statuses, r \in BOOLEAN, d \in KeySets, m \in BOOLEAN}

Unchecked ==
    [detected |-> FALSE, severity |-> "unchecked", reason |-> "",
     recoverable |-> TRUE]

InitDetectIdle ==
    /\ signal = Signal("page", NoPage, 200, FALSE, FALSE, {}, FALSE)
    /\ verdict = Unchecked

InitDetect ==
    /\ signal \in Signals
    /\ verdict = Unchecked

detectFrame == UNCHANGED detectRest

DetectBanFromPage ==
    /\ verdict = Unchecked
    /\ signal.source = "page"
    /\ verdict' = detectBanFromPage(signal.page)
    /\ UNCHANGED signal
    /\ detectFrame

DetectBanFromResponse ==
    /\ verdict = Unchecked
    /\ signal.source = "response"
    /\ verdict' = detectBanFromResponse(signal.status, signal.rateHeader)
    /\ UNCHANGED signal
    /\ detectFrame

DetectBanFromError ==
    /\ verdict = Unchecked
    /\ signal.source = "error"
    /\ verdict' = detectBanFromError(signal)
    /\ UNCHANGED signal
    /\ detectFrame

NextDetect ==
    \/ DetectBanFromPage
    \/ DetectBanFromResponse
    \/ DetectBanFromError

\* ----------------------------------------------------- PasskeyHandler
PasskeyTitle == "Sign in faster with a passkey"

\* the page handlePasskeyPrompts is called on: does the QR-code dialog
\* handler dismiss something, does the URL match fido/create or passkey, the
\* text of the secondaryButton ("absent": none) and the lookup from which it
\* is visible (0: from the start, 2: from the lookup of line 199), the
\* title, and one other element of the prompts
PasskeyPages ==
    {page \in
       [qrHandled : BOOLEAN, urlPasskey : BOOLEAN,
        button : {"absent", "Skip for now", "Passer", "Back"},
        buttonFrom : {0, 2},
        title : {"absent", PasskeyTitle, "Enter password"},
        other : {"none", "biometricVideo", "windowsHello", "closeButton",
                 "kmsiVideo"}] :
       page.button = "absent" => page.buttonFrom = 0}

\* the progress of one call: did, is the prompt gone (its button clicked),
\* the elements clicked, the reasons passed to logPasskeyOnce
NothingDone == [did |-> FALSE, gone |-> FALSE, clicks |-> {}, reasons |-> <<>>]

\* the secondaryButton is found visible by the lookup number n
found(page, st, n) ==
    page.button # "absent" /\ ~st.gone /\ page.buttonFrom <= n

clicked(st, element, reason, dismisses) ==
    [did |-> TRUE, gone |-> st.gone \/ dismisses,
     clicks |-> st.clicks \cup {element},
     reasons |-> Append(st.reasons, reason)]

\* lines 56-60
qrCodeStep(page, st) ==
    IF page.qrHandled
    THEN [st EXCEPT !.did = TRUE,
                    !.reasons = Append(@, "QR code passkey dialog")]
    ELSE st

\* lines 63-82: the secondaryButton is among the selectors clicked
fidoCreateStep(page, st) ==
    IF page.urlPasskey /\ found(page, st, 0)
    THEN clicked(st, "secondaryButton", "fido/create cancel", TRUE)
    ELSE st

\* line 98: /skip|later|not now|non merci|pas maintenant/i
matchesSkipNever(text) == FALSE

matchesSkip(text) == text = "Skip for now"

\* lines 85-111
directStep(page, st) ==
    IF found(page, st, 0) /\ matchesSkip(page.button)
    THEN clicked(st, "secondaryButton", "data-testid secondaryButton", TRUE)
    ELSE st

\* lines 114-149
videoStep(page, st) ==
    IF ~st.did /\ page.other = "biometricVideo" /\ found(page, st, 1)
    THEN clicked(st, "secondaryButton", "video heuristic", TRUE)
    ELSE st

\* line 166
looksLike(title) == title = PasskeyTitle

\* lines 152-195
titleStep(page, st) ==
    IF ~st.did /\ page.title # "absent" /\ looksLike(page.title)
       /\ found(page, st, 1)
    THEN clicked(st, "secondaryButton", "title heuristic passkey", TRUE)
    ELSE st

\* line 213: /skip for now|not now|later|passer|plus tard/i
matchesSkipForNow(text) == text \in {"Skip for now", "Passer"}

\* lines 198-227
buttonTextStep(page, st) ==
    IF ~st.did /\ found(page, st, 2) /\ matchesSkipForNow(page.button)
    THEN clicked(st, "secondaryButton", "secondary button text", TRUE)
    ELSE st

\* lines 231-251: a button containing "Skip for now", "Not now", "Passer"
\* or "No thanks"
xpathStep(page, st) ==
    IF /\ ~st.did /\ found(page, st, 3)
       /\ page.button \in {"Skip for now", "Passer"}
    THEN clicked(st, "secondaryButton", "xpath fallback", TRUE)
    ELSE st

\* lines 254-290
windowsHelloStep(page, st) ==
    IF ~st.did /\ page.other = "windowsHello" /\ found(page, st, 3)
    THEN clicked(st, "secondaryButton", "Windows Hello skip", TRUE)
    ELSE st

\* lines 293-313
closeButtonStep(page, st) ==
    IF ~st.did /\ page.other = "closeButton"
    THEN clicked(st, "close-button", "close button", FALSE)
    ELSE st

\* lines 316-334: the KMSI prompt is accepted, nothing goes to logPasskeyOnce
kmsiStep(page, st) ==
    IF page.other = "kmsiVideo"
    THEN [st EXCEPT !.did = TRUE, !.clicks = @ \cup {"primaryButton"}]
    ELSE st

handlePasskeyPrompts(page) ==
    kmsiStep(page,
      closeButtonStep(page,
        windowsHelloStep(page,
          xpathStep(page,
            buttonTextStep(page,
              titleStep(page,
                videoStep(page,
                  directStep(page,
                    fidoCreateStep(page,
                      qrCodeStep(page, NothingDone))))))))))

\* logPasskeyOnce over the reasons of one call: the first one is logged,
\* unless a dismissal was logged before
logPasskeyOnce(log, handled, reasons) ==
    IF handled \/ reasons = <<>> THEN log ELSE Append(log, Head(reasons))

NoPasskeyPage ==
    [qrHandled |-> FALSE, urlPasskey |-> FALSE, button |-> "absent",
     buttonFrom |-> 0, title |-> "absent", other |-> "none"]

InitPasskeyIdle ==
    /\ passkeyPage = NoPasskeyPage
    /\ passkeyHandled = FALSE
    /\ passkeyLog = <<>>
    /\ passkeyClicks = {}
    /\ passkeyCalls = 0

InitPasskey == InitPasskeyIdle

passkeyFrame == UNCHANGED passkeyRest

HandlePasskeyPrompts(page) ==
    /\ passkeyCalls < MaxPrompts
    /\ passkeyCalls' = passkeyCalls + 1
    /\ passkeyPage' = page
    /\ LET st == handlePasskeyPrompts(page)
       IN /\ passkeyClicks' = st.clicks
          /\ passkeyLog' = logPasskeyOnce(passkeyLog, passkeyHandled,
                                          st.reasons)
          /\ passkeyHandled' = (passkeyHandled \/ st.reasons # <<>>)
    /\ passkeyFrame

NextPasskey == \E page \in PasskeyPages : HandlePasskeyPrompts(page)

\* ------------------------------------------------------- specifications
\* the utilities at rest
InitUtilsIdle ==
    /\ InitHistIdle
    /\ InitRouteIdle
    /\ InitLoginIdle
    /\ InitMatchIdle
    /\ InitDetectIdle
    /\ InitPasskeyIdle

\* the other added components at rest
histOthersIdle ==
    /\ InitRouteIdle
    /\ InitLoginIdle
    /\ InitMatchIdle
    /\ InitDetectIdle
    /\ InitPasskeyIdle

routeOthersIdle ==
    /\ InitHistIdle
    /\ InitLoginIdle
    /\ InitMatchIdle
    /\ InitDetectIdle
    /\ InitPasskeyIdle

loginOthersIdle ==
    /\ InitHistIdle
    /\ InitRouteIdle
    /\ InitMatchIdle
    /\ InitDetectIdle
    /\ InitPasskeyIdle

matchOthersIdle ==
    /\ InitHistIdle
    /\ InitRouteIdle
    /\ InitLoginIdle
    /\ InitDetectIdle
    /\ InitPasskeyIdle

detectOthersIdle ==
    /\ InitHistIdle
    /\ InitRouteIdle
    /\ InitLoginIdle
    /\ InitMatchIdle
    /\ InitPasskeyIdle

passkeyOthersIdle ==
    /\ InitHistIdle
    /\ InitRouteIdle
    /\ InitLoginIdle
    /\ InitMatchIdle
    /\ InitDetectIdle

InitToolsIdle ==
    /\ InitAct /\ InitTextIdle /\ InitJsoncIdle /\ InitEdgeIdle
    /\ InitUtilsIdle

InitOldToolsIdle == InitAct /\ InitTextIdle /\ InitJsoncIdle /\ InitEdgeIdle

InitFlowIdle ==
    /\ InitFlow
    /\ cfg = [retryMobileSearchAmount |-> 0, runOnZeroPoints |-> FALSE,
              doDailyCheckIn |-> FALSE, doReadToEarn |-> FALSE,
              doMobileSearch |-> FALSE]
    /\ articlesLeft = 0

InitCoreIdle ==
    /\ InitFlowIdle /\ InitBotIdle /\ InitFile /\ InitBan /\ InitFuseIdle
    /\ InitCtl /\ InitRecIdle

Init ==
    /\ InitFlow /\ InitBotIdle /\ InitFile /\ InitBan /\ InitFuseIdle
    /\ InitCtl /\ InitRecIdle /\ InitToolsIdle

Next ==
    \/ CreateBrowserInstance
    \/ Login
    \/ LoginRetry
    \/ AfterLogin
    \/ GetDashboardData
    \/ DoDailyCheckIn
    \/ DoReadToEarn
    \/ DoSearch
    \/ RetryMobileSearch
    \/ GetCurrentPoints
    \/ Finally

Spec == Init /\ [][Next]_vars

InitBanSpec ==
    /\ InitFlowIdle /\ InitBotIdle /\ InitFile /\ InitBan /\ InitFuseIdle
    /\ InitCtl /\ InitRecIdle /\ InitToolsIdle

SpecBan == InitBanSpec /\ [][NextBan]_vars

InitFuseSpec ==
    /\ InitFlowIdle /\ InitBotIdle /\ InitFile /\ InitBan /\ InitFuse
    /\ InitCtl /\ InitRecIdle /\ InitToolsIdle

NextFuse == ComprehensiveBanCheck

SpecFuse == InitFuseSpec /\ [][NextFuse]_vars

InitCtlSpec ==
    /\ InitFlowIdle /\ InitBotIdle /\ InitFile /\ InitBan /\ InitFuseIdle
    /\ InitCtl /\ InitRecIdle /\ InitToolsIdle

SpecCtl == InitCtlSpec /\ [][NextCtl]_vars

InitRecSpec ==
    /\ InitFlowIdle /\ InitBotIdle /\ InitFile /\ InitBan /\ InitFuseIdle
    /\ InitCtl /\ InitRec /\ InitToolsIdle

SpecRec == InitRecSpec /\ [][NextRec]_vars

InitActSpec ==
    /\ InitFlowIdle /\ InitBotIdle /\ InitFile /\ InitBan /\ InitFuseIdle
    /\ InitCtl /\ InitRecIdle /\ InitAct /\ InitTextIdle /\ InitJsoncIdle
    /\ InitEdgeIdle /\ InitUtilsIdle

SpecAct == InitActSpec /\ [][NextAct]_vars

InitTextSpec ==
    /\ InitFlowIdle /\ InitBotIdle /\ InitFile /\ InitBan /\ InitFuseIdle
    /\ InitCtl /\ InitRecIdle /\ InitAct /\ InitText /\ InitJsoncIdle
    /\ InitEdgeIdle /\ InitUtilsIdle

SpecText == InitTextSpec /\ [][NextText]_vars

InitJsoncSpec ==
    /\ InitFlowIdle /\ InitBotIdle /\ InitFile /\ InitBan /\ InitFuseIdle
    /\ InitCtl /\ InitRecIdle /\ InitAct /\ InitTextIdle /\ InitJsonc
    /\ InitEdgeIdle /\ InitUtilsIdle

SpecJsonc == InitJsoncSpec /\ [][NextJsonc]_vars

InitEdgeSpec ==
    /\ InitFlowIdle /\ InitBotIdle /\ InitFile /\ InitBan /\ InitFuseIdle
    /\ InitCtl /\ InitRecIdle /\ InitAct /\ InitTextIdle /\ InitJsoncIdle
    /\ InitEdge /\ InitUtilsIdle

SpecEdge == InitEdgeSpec /\ [][NextEdge]_vars

InitHistSpec ==
    InitCoreIdle /\ InitOldToolsIdle /\ histOthersIdle /\ InitHist

SpecHist == InitHistSpec /\ [][NextHist]_vars

InitRouteSpec ==
    InitCoreIdle /\ InitOldToolsIdle /\ routeOthersIdle /\ InitRoute

SpecRoute == InitRouteSpec /\ [][NextRoute]_vars

InitLoginSpec ==
    InitCoreIdle /\ InitOldToolsIdle /\ loginOthersIdle /\ InitLogin

SpecLogin == InitLoginSpec /\ [][NextLogin]_vars

InitMatchSpec ==
    InitCoreIdle /\ InitOldToolsIdle /\ matchOthersIdle /\ InitMatch

SpecMatch == InitMatchSpec /\ [][NextMatch]_vars

InitDetectSpec ==
    InitCoreIdle /\ InitOldToolsIdle /\ detectOthersIdle /\ InitDetect

SpecDetect == InitDetectSpec /\ [][NextDetect]_vars

InitPasskeySpec ==
    InitCoreIdle /\ InitOldToolsIdle /\ passkeyOthersIdle /\ InitPasskey

SpecPasskey == InitPasskeySpec /\ [][NextPasskey]_vars

\* ----------------------------------------------------------------- claims
\* the account the mobile flow runs for
FlowAccount == "a1"

\* C1 (as stated): when run has returned or thrown, every browser context
\* it created has been closed
C1_AllContextsClosed == pc = "done" => ctxOpen = {}

\* C1 (amended): when run has returned or thrown, the only context that can
\* still be open is the one of the compromised-mode return for which
\* handleCompromisedMode asked to keep the browser open
C1_ClosedUnlessKept ==
    pc = "done" =>
        /\ ctxOpen = keptOpen
        /\ keptOpen # {} =>
             /\ ret = "compromised"
             /\ outcome = "returned"
             /\ Cardinality(keptOpen) = 1

\* a run that retried the search, retried the login with a fresh context in
\* the second pass, and then threw: all three contexts are closed
C1_Witness ==
    /\ pc = "done"
    /\ outcome = "thrown"
    /\ rebuilds >= 1
    /\ ctxCreated >= 3
    /\ ctxOpen = {}

\* C2: a daily check-in or read-to-earn that has completed is not executed
\* again in the same run, also not when the flow is re-entered for a retry
C2_NoReExecution == ~checkInRedone /\ ~readRedone

\* C3: every account with a hard-ban verdict has been disabled in the
\* account file exactly once, with exactly one incident
C3_HardBanDisablesOnce ==
    \A a \in Accounts :
        hardBans[a] > 0 =>
            /\ accountFile[a].enabled = FALSE
            /\ fileWrites[a] = 1
            /\ incidents[a] = 1

C5_StopFlagHeld ==
    /\ \A r \in RunIds :
          stopAccepted[r] /\ r \in LiveRuns => stopRequested
    /\ ~startedAfterStop

signalSeverities(page) ==
    (IF page.urlBan THEN {"soft-ban"} ELSE {})
        \cup {labelSeverity(l) : l \in page.text}

\* C7: the comprehensive check of a readable page returns the worst
\* severity among the matching signals
C7_WorstSeverityWins ==
    (fuseResult.severity # "unchecked" /\ ~fusePage.fails) =>
        /\ \A s \in signalSeverities(fusePage) :
              severityOrder(s) <= severityOrder(fuseResult.severity)
        /\ fuseResult.severity \in signalSeverities(fusePage) \cup {"none"}

\* C8: after a daily check-in that got HTTP 403 the account is disabled in
\* the account file and an incident has been emitted for it
C8_CheckIn403DisablesAccount ==
    checkInStatus = "403" =>
        /\ accountFile[FlowAccount].enabled = FALSE
        /\ incidents[FlowAccount] >= 1

\* C9: the browser is rebuilt at most retryMobileSearchAmount times and the
\* search runs at most retryMobileSearchAmount + 1 times
C9_RetryBound ==
    /\ rebuilds <= cfg.retryMobileSearchAmount
    /\ Len(frames) <= cfg.retryMobileSearchAmount
    /\ searchPasses <= cfg.retryMobileSearchAmount + 1
    /\ attempts <= cfg.retryMobileSearchAmount + 1

\* every allowed retry was used and the last pass was incomplete as well
C9_Witness ==
    /\ pc = "done"
    /\ cfg.retryMobileSearchAmount >= 2
    /\ rebuilds = cfg.retryMobileSearchAmount
    /\ searchPasses = cfg.retryMobileSearchAmount + 1
    /\ warnLogged

C11_ZeroPointsStops ==
    [][(earnable = 0 /\ ~cfg.runOnZeroPoints)
         => /\ checkInCalls' = checkInCalls
            /\ readCalls' = readCalls
            /\ searchPasses' = searchPasses
            /\ rebuilds' = rebuilds
            /\ ctxCreated' = ctxCreated
            /\ pc' \in {"finally", "done"}
            /\ ret' = "zeroPoints"
            /\ (pc' = "done" => outcome' = "returned")]_vars

\* the flow has returned through the zero-points return
C11_Witness ==
    /\ pc = "done"
    /\ outcome = "returned"
    /\ earnable = 0
    /\ ~cfg.runOnZeroPoints
    /\ cfg.doDailyCheckIn
    /\ cfg.doMobileSearch
    /\ ret = "zeroPoints"
    /\ checkInCalls = 0
    /\ searchPasses = 0

C13_HandlerClosesTab ==
    (kind \in TabHandlers /\ handlerExit # "none") => ~tabOpen

C14_DisableIdempotent ==
    \A i \in 1..(Len(disableLog) - 1) :
        disableLog[i].email = disableLog[i + 1].email
          => /\ disableLog[i + 1].after = disableLog[i].after
             /\ ~disableLog[i + 1].wrote

\* the first call disabled the account and wrote the file, the second call
\* was for the same email
C14_Witness ==
    /\ Len(disableLog) = 2
    /\ disableLog[1].email = disableLog[2].email
    /\ disableLog[1].wrote
    /\ disableLog[1].after # disableLog[1].before
    /\ ~disableLog[2].threw

\* the comments of a text, in order
commentsOf(file) == SelectSeq(file.items, LAMBDA it : it.t = "comment")

\* C15 (as stated): a call that disables an account keeps every comment the
\* file had, keeps every other account as it was, sets enabled to false on
\* the account and puts a BANNED line in front of it.
C15_OnlyThatAccountChanges ==
    \A i \in 1..Len(disableLog) :
        disableLog[i].wrote
          => LET before == disableLog[i].before
                 after == disableLog[i].after
                 old == parsedAccounts(before)
                 new == parsedAccounts(after)
                 idx == findIndex(old, disableLog[i].email)
             IN /\ Len(new) = Len(old)
                /\ \A k \in 1..Len(old) :
                      new[k] = IF k = idx
                               THEN [old[k] EXCEPT !.enabled = "false"]
                               ELSE old[k]
                /\ \A k \in 1..Len(commentsOf(before)) :
                      \E m \in 1..Len(after.items) :
                          after.items[m] = commentsOf(before)[k]
                /\ \E m \in 1..(Len(after.items) - 1) :
                      /\ after.items[m].t = "comment"
                      /\ after.items[m].text[1] = "BANNED"
                      /\ after.items[m + 1] = new[idx]

\* the end of the string literal whose body starts at i and whose quote is
\* q: the index of the first q that no backslash escapes, past the end of
\* the text when there is none
RECURSIVE stringEnd(_, _, _)
stringEnd(text, i, q) ==
    IF i > Len(text) THEN Len(text)
    ELSE IF text[i] = "bs" THEN stringEnd(text, i + 2, q)
    ELSE IF text[i] = q THEN i
    ELSE stringEnd(text, i + 1, q)

\* the index of the first line end from i on, past the end when none
RECURSIVE lineEnd(_, _)
lineEnd(text, i) ==
    IF i > Len(text) \/ text[i] = "nl" THEN i ELSE lineEnd(text, i + 1)

\* the index after the first */ from i on, past the end when none
RECURSIVE blockEnd(_, _)
blockEnd(text, i) ==
    IF i > Len(text) THEN i
    ELSE IF text[i] = "*" /\ charAt(text, i + 1) = "/" THEN i + 2
    ELSE blockEnd(text, i + 1)

\* the text without its comments, token by token: a string literal (opened
\* by a double or a single quote) is kept whole, a // comment is dropped up
\* to the line end, a block comment up to and with its */, any other
\* character is kept
RECURSIVE withoutComments(_, _)
withoutComments(text, i) ==
    IF i > Len(text) THEN <<>>
    ELSE IF text[i] \in {"dq", "sq"}
    THEN LET e == Min(stringEnd(text, i + 1, text[i]), Len(text))
         IN SubSeq(text, i, e) \o withoutComments(text, e + 1)
    ELSE IF text[i] = "/" /\ charAt(text, i + 1) = "/"
    THEN withoutComments(text, lineEnd(text, i + 2))
    ELSE IF text[i] = "/" /\ charAt(text, i + 1) = "*"
    THEN withoutComments(text, blockEnd(text, i + 2))
    ELSE <<text[i]>> \o withoutComments(text, i + 1)

\* C16: stripJsonComments returns the input without the // and /* */
\* comments that stand outside string literals, and with every other
\* character, those of string literals with escaped quotes included, kept.
C16_StripsExactlyComments ==
    jsoncPhase = "stripped" => jsoncText = withoutComments(jsoncInput, 1)

\* a string with an escaped quote that holds //, followed by a comment
C16_Witness ==
    /\ jsoncPhase = "stripped"
    /\ jsoncInput = <<"dq", "bs", "dq", "/", "/">>
    /\ jsoncText = jsoncInput

\* C17 (as stated): for an input that is strict JSON, parseJsonc returns the
\* value that JSON.parse returns for it.
C17_StrictJsonUnchanged ==
    (jsoncPhase = "parsed" /\ JSONparse(jsoncInput).ok)
      => jsoncValue = JSONparse(jsoncInput)

\* C18: at most one version fetch is pending at any time, and a caller that
\* arrived while a fetch was pending (the cache holding no unexpired entry)
\* started none of its own: it awaits that fetch and returns its result.
C18_SingleFlight ==
    /\ Cardinality(PendingFetches) <= 1
    /\ \A c \in CallerIds :
          callers[c].arrivedDuring # 0
            => /\ callers[c].started = 0
               /\ callers[c].awaits = callers[c].arrivedDuring
               /\ callers[c].pc = "returned"
                    => callers[c].result
                         = fetches[callers[c].arrivedDuring].value

\* two callers got the result of one fetch, one of them having arrived
\* while it was pending
C18_Witness ==
    \E c, d \in CallerIds :
        /\ c # d
        /\ callers[c].started # 0
        /\ callers[d].arrivedDuring = callers[c].started
        /\ callers[c].pc = "returned"
        /\ callers[d].pc = "returned"
        /\ callers[d].result = callers[c].result

\* C19: a caller of getEdgeVersions whose fetch failed returns the entry the
\* cache held at the failure, and the static fallback when it held none;
\* the promise of a failed fetch is settled with that value, so that every
\* caller awaiting it can return.
C19_ServedOnFailure ==
    /\ \A f \in FetchIds :
          (fetches[f].status = "settled" /\ fetches[f].failed)
            => fetches[f].value \in EdgeData \cup {FALLBACK_EDGE_VERSIONS}
    /\ \A c \in CallerIds :
          (callers[c].pc = "returned" /\ callers[c].awaits # 0
             /\ fetches[callers[c].awaits].failed)
            => callers[c].result
                 = IF fetches[callers[c].awaits].stale # "none"
                   THEN fetches[callers[c].awaits].stale
                   ELSE FALLBACK_EDGE_VERSIONS

\* a fetch failed over an expired entry, and both the caller that started it
\* and a caller that waited for it returned the stale entry
C19_Witness ==
    \E c, d \in CallerIds :
        /\ c # d
        /\ callers[c].started # 0
        /\ callers[d].awaits = callers[c].started
        /\ callers[d].started = 0
        /\ fetches[callers[c].started].failed
        /\ fetches[callers[c].started].stale \in EdgeData
        /\ callers[c].pc = "returned"
        /\ callers[d].pc = "returned"
        /\ callers[c].result = fetches[callers[c].started].stale
        /\ callers[d].result = callers[c].result

\* C21 (as stated): at most one run launched by the controller is executing
\* at any time.
C21_AtMostOneRun == Cardinality(LiveRuns) <= 1

\* C22 (as stated): when a run ends while the controller's fields belong to
\* a run started later, its cleanup leaves those fields alone, so that the
\* controller keeps reporting the later run as running.
C22_CleanupOwnRunOnly ==
    [][\A r \in RunIds :
          (r \in LiveRuns /\ runPhase'[r] = "done"
             /\ botInstance # 0 /\ botInstance # r)
            => /\ botInstance' = botInstance
               /\ botProcess' = botProcess
               /\ stopRequested' = stopRequested
               /\ dashRunning' = dashRunning]_vars

\* C23: at most one browser context created by the mobile flow is open at
\* any time, across the login retry and the mobile-search retries.
C23_OneContextOpen == Cardinality(ctxOpen) <= 1

\* a third context is open alone, after a login retry and a search retry
C23_Witness ==
    /\ rebuilds >= 1
    /\ ctxCreated >= 3
    /\ ctxOpen = {ctxCreated}
    /\ pc = "dashboard"

\* C24 (as stated): after a crash or a failed write the history file is the
\* complete file from before the write or the complete new one.
C24_FileIsOldOrNew ==
    historyPc \in {"failed", "createFailed", "crashed"}
      => \/ historyFile = historyBefore
         \/ historyFile.text = historyPending

\* C25: a request is delayed only if it is non-critical: image, media and
\* font requests go on undelayed with their original headers, and document,
\* xhr, fetch, script and stylesheet requests are never delayed.
C25_DelayOnlyNonCritical ==
    /\ routed.delay > 0
         => routed.resourceType \notin
              {"document", "xhr", "fetch", "script", "stylesheet"}
    /\ routed.resourceType \in {"image", "media", "font"}
         => routed.delay = 0 /\ routed.headers = "original"
    /\ routed.resourceType \in
         {"document", "xhr", "fetch", "script", "stylesheet"}
         => routed.delay = 0

\* a request that is neither critical nor passed through has been held back
C25_Witness ==
    /\ routed.resourceType = "websocket"
    /\ routed.delay >= minDelay
    /\ routedCount >= 2

\* C26 (as stated): the detector follows the rules in order, first match
\* wins: LoggedIn on the rewards portal with a portal selector visible; on
\* the login portal EmailPage, PasswordPage, TwoFactorRequired, PasskeyPrompt
\* or Blocked by what the page shows; EmailSubmitted on an OAuth endpoint;
\* Unknown in every other case.
C26_RulesInOrder ==
    loginState # "none" =>
      LET u == loginPage.url
          onLogin == u.host = "login"
      IN loginState =
           IF u.host = "rewards" /\ loginPage.portal THEN "LoggedIn"
           ELSE IF onLogin /\ loginPage.emailInput THEN "EmailPage"
           ELSE IF onLogin /\ loginPage.passwordInput THEN "PasswordPage"
           ELSE IF onLogin /\ loginPage.otcInput THEN "TwoFactorRequired"
           ELSE IF onLogin /\ loginPage.title = "passkey"
                THEN "PasskeyPrompt"
           ELSE IF onLogin /\ titleOrH1(loginPage) = "blocked"
                THEN "Blocked"
           ELSE IF u.oauthPath /\ ~onLogin THEN "EmailSubmitted"
           ELSE "Unknown"

\* the words of a URL or a name, and a promotion type, in lower case
LowerWords == {"quiz", "urlreward", "pollscenarioid", "exploreonbing"}

lowered(w) ==
    IF w \in LowerWords THEN w
    ELSE IF w = "Quiz" THEN "quiz"
    ELSE IF w = "UrlReward" THEN "urlreward"
    ELSE IF w = "PollScenarioId" THEN "pollscenarioid"
    ELSE IF w = "ExploreOnBing" THEN "exploreonbing"
    ELSE w

\* the dispatcher table, on a promotion type, a maximum and the facts
\* "the url contains pollscenarioid", "the name contains exploreonbing"
dispatcherTable(type, max, urlHasPoll, nameHasExplore) ==
    IF type = "quiz" /\ max = 10 /\ urlHasPoll THEN "poll"
    ELSE IF type = "quiz" /\ max = 10 THEN "abc"
    ELSE IF type = "quiz" /\ max = 50 THEN "thisOrThat"
    ELSE IF type = "quiz" THEN "quiz"
    ELSE IF type = "urlreward" /\ nameHasExplore THEN "searchOnBing"
    ELSE IF type = "urlreward" THEN "urlReward"
    ELSE "unsupported"

\* C27 (as stated): the kind of an activity is the one of the dispatcher
\* table, first match wins, with promotion_type equal to "quiz" or
\* "urlreward" and the url and name containing the words of the table.
C27_TableExact ==
    kind # "none" =>
      kind = dispatcherTable(
                 activity.promotionType, activity.pointProgressMax,
                 \E i \in 1..Len(activity.destinationUrl) :
                     activity.destinationUrl[i] = "pollscenarioid",
                 \E i \in 1..Len(activity.name) :
                     activity.name[i] = "exploreonbing")

\* C27 (amended): the kind of an activity is the one of the dispatcher table,
\* first match wins, the promotion type, the url and the name being compared
\* in lower case.
C27_TableOnLowerCase ==
    kind # "none" =>
      kind = dispatcherTable(
                 lowered(activity.promotionType), activity.pointProgressMax,
                 \E i \in 1..Len(activity.destinationUrl) :
                     lowered(activity.destinationUrl[i]) = "pollscenarioid",
                 \E i \in 1..Len(activity.name) :
                     lowered(activity.name[i]) = "exploreonbing")

\* a quiz of 50 points written "Quiz" has been dispatched as thisOrThat
C27_Witness ==
    /\ kind = "thisOrThat"
    /\ activity.promotionType = "Quiz"
    /\ activity.pointProgressMax = 50
    /\ actPc = "dispatched"

\* the visible characters of a masked address
visibleOf(masked) ==
    SelectSeq(masked.local, LAMBDA c : c # "*")

\* an address agrees with a masked one: same domain, and the same first
\* character when one is visible, the same first two when two are visible
agrees(address, masked) ==
    LET v == visibleOf(masked)
    IN /\ LowerDomain(address.domain) = LowerDomain(masked.domain)
       /\ Len(address.local) >= Len(v)
       /\ \A i \in 1..Len(v) : Lower(address.local[i]) = Lower(v[i])

C29_HardBanNotRecoverable ==
    verdict.severity = "hard-ban" => ~verdict.recoverable

\* the page of the claim, on the first call of the handler: the passkey
\* title and a visible secondaryButton labelled "Skip for now"
passkeyScenario ==
    /\ passkeyCalls = 1
    /\ passkeyPage.title = "Sign in faster with a passkey"
    /\ passkeyPage.button = "Skip for now"
    /\ passkeyPage.buttonFrom = 0

\* C30 (as stated): on that page the prompt is dismissed by a click on the
\* secondaryButton and the log line gives the reason "secondary button text".
C30_ReasonButtonText ==
    passkeyScenario =>
      /\ "secondaryButton" \in passkeyClicks
      /\ passkeyLog = <<"secondary button text">>

\* C30 (amended): on that page, when the URL is not a passkey-creation URL
\* and there is no QR-code dialog, the prompt is dismissed by a click on the
\* secondaryButton and the log line gives the reason
\* "data-testid secondaryButton".
C30_ReasonDataTestid ==
    (passkeyScenario /\ ~passkeyPage.urlPasskey /\ ~passkeyPage.qrHandled) =>
      /\ "secondaryButton" \in passkeyClicks
      /\ passkeyLog = <<"data-testid secondaryButton">>

\* the handler has dismissed the prompt of the claim on a plain login page
C30_Witness ==
    /\ passkeyScenario
    /\ ~passkeyPage.urlPasskey /\ ~passkeyPage.qrHandled
    /\ passkeyPage.other = "none"
    /\ passkeyClicks = {"secondaryButton"}
    /\ passkeyHandled

====
